---- MODULE Spec2Model ----
(***************************************************************************)
(* launchd (src/launchd/src/launchd.c): the job registry, the kqueue       *)
(* reactor and the control-plane dispatcher, as a state machine.           *)
(*                                                                         *)
(* A handler of the reactor runs to completion under giant_lock, so each   *)
(* handler is one action.  The C handlers are sequential code that passes   *)
(* the global state along nested calls (job_callback -> job_reap ->        *)
(* job_restart_fitness_test -> job_remove ...); they are translated as     *)
(* operators over a record w of the globals, and an action commits the     *)
(* record its handler returns.  What the kernel and the children decide    *)
(* (fork's result, the exit status, the run time, the queue directory's     *)
(* contents) is an argument e of the handler, drawn by the action.         *)
(*                                                                         *)
(* Addresses and descriptors are numbers: a job's address is its id (the   *)
(* lowest id not in the registry: free()d memory is handed out again),     *)
(* descriptors and timer idents are offsets from it (VnodeFd, ExecFd ...). *)
(***************************************************************************)
EXTENDS Integers, Sequences, FiniteSets, TLC

VARIABLES
    jobs,                  \* TAILQ jobs: sequence of struct jobcb
    connections,           \* TAILQ connections: set of struct conncb
    procs,                 \* the children forked by job_start, by pid
    kq,                    \* knotes registered on mainkq and asynckq
    fdtable,               \* the descriptors open in the supervisor
    async_enabled,         \* the asynckq knote on mainkq is enabled
    batch_disabler_count,
    total_children,
    shutdown_in_progress,
    pid1,                  \* getpid() == 1
    alive,                 \* the supervisor has not called exit()
    last,                  \* the handler that ran last, its input and response
    handshake,             \* job_start's place in its parent branch, and the
                           \* bytes written to exec sockets and not yet read
    ctl,                   \* the launchctl process: its globals, its place in
                           \* load_and_unload_cmd, the files it sees
    session,               \* the session directory, its lock and socket, and
                           \* the supervisors started for it
    scope                  \* the limits of the run explored, fixed by Init

vars == <<jobs, connections, procs, kq, fdtable, async_enabled, batch_disabler_count,
          total_children, shutdown_in_progress, pid1, alive, last, handshake,
          ctl, session, scope>>

----------------------------------------------------------------------------
(* Bounds of the model *)

MaxJobs == 2             \* entries of the registry
MaxProcs == 2            \* children alive at a time (fork fails beyond)
MaxConns == 1            \* connections open at a time
MaxFailures == 1         \* failed_exits a job reaches outside the deep scope
MaxChildren == 2         \* total_children
MaxAlarms == 2           \* alarms of a calendar interval in a row
MaxCommands == 2         \* commands of an interactive launchctl
MaxSups == 3             \* supervisors started for one session directory

(* Program constants *)

LAUNCHD_MIN_JOB_RUN_TIME == 10
LAUNCHD_REWARD_JOB_RUN_TIME == 60
LAUNCHD_FAILED_EXITS_THRESHOLD == 10

JobIds == 1..MaxJobs
Pids == 1..MaxProcs

FirstbornLabel == "com.apple.launchd.firstborn"
Labels == {"a", "b"}

\* time(NULL) - j->start_time at a reap: both sides of each threshold
Durations == {LAUNCHD_MIN_JOB_RUN_TIME - 1, LAUNCHD_MIN_JOB_RUN_TIME,
              LAUNCHD_REWARD_JOB_RUN_TIME - 1, LAUNCHD_REWARD_JOB_RUN_TIME,
              LAUNCHD_REWARD_JOB_RUN_TIME + 1}

\* what waitpid() reports: exit(0), exit(1), or death by a signal
Statuses == {"exit0", "exit1", "SIGTERM", "SIGKILL", "SIGSEGV"}

WIFEXITED(status) == status \in {"exit0", "exit1"}
WEXITSTATUS(status) == IF status = "exit0" THEN 0 ELSE 1
WIFSIGNALED(status) == status \in {"SIGTERM", "SIGKILL", "SIGSEGV"}

\* descriptors and timer idents, by the job (or child) they belong to
SockFds == 11..13
VnodeFd(id) == 20 + id
QdirFd(id) == 30 + id
ExecFd(pid) == 100 + pid
ConnFd(n) == 200 + n
IntervalIdent(id) == 400 + id
CalIdent(id) == 500 + id

\* udata of a knote: the address of a kq_callback
JobUdata(id) == [cb |-> "job", obj |-> id]
ReaperUdata == [cb |-> "reaper", obj |-> 0]
ConnUdata(fd) == [cb |-> "conn", obj |-> fd]

----------------------------------------------------------------------------
(* Job descriptions a client submits (launch_data dictionaries) *)

Kinds ==
    { [Program |-> "/bin/p"],
      [Program |-> "/bin/p", Sockets |-> 0],
      [Program |-> "/bin/p", OnDemand |-> FALSE],
      [ProgramArguments |-> "p", OnDemand |-> FALSE, ServiceIPC |-> TRUE],
      [Program |-> "/bin/p", StartInterval |-> 5, StartCalendarInterval |-> 1],
      [Program |-> "/bin/p", RunAtLoad |-> TRUE, WatchPaths |-> "/w",
       QueueDirectories |-> "/q"] }

BadKinds == { [OnDemand |-> FALSE] }

\* the descriptor a message brings: recvmsg() installs it at the lowest free
\* number
RecvFd ==
    IF SockFds \subseteq fdtable THEN 13
    ELSE CHOOSE fd \in SockFds \ fdtable : \A g \in SockFds \ fdtable : fd <= g

\* the message as received: the Sockets entry carries the descriptor passed
Describe(kind, label) ==
    LET withfd == IF "Sockets" \in DOMAIN kind
                  THEN [kind EXCEPT !["Sockets"] = RecvFd]
                  ELSE [k \in DOMAIN kind \ {"Sockets"} |-> kind[k]]
    IN  withfd @@ [Label |-> label]

\* what the clients of the run send: scope.kinds under scope.labels, and
\* the descriptions load_job refuses
Descriptions ==
    { Describe(k, l) : k \in scope.kinds \cup BadKinds, l \in scope.labels }
    \cup { [Program |-> "/bin/p"] }

\* the descriptions sent as an array
ArrayDescriptions ==
    { Describe([Program |-> "/bin/p"], l) : l \in scope.labels }
    \cup { Describe([OnDemand |-> FALSE], "a") }

job_get_bool(ldj, key) == key \in DOMAIN ldj /\ ldj[key]

----------------------------------------------------------------------------
(* The globals as one record, and access to a job by its address *)

World == [jobs |-> jobs, connections |-> connections, procs |-> procs, kq |-> kq,
          fdtable |-> fdtable,
          async_enabled |-> async_enabled,
          batch_disabler_count |-> batch_disabler_count,
          total_children |-> total_children,
          shutdown_in_progress |-> shutdown_in_progress, sent |-> {}]

Commit(w) ==
    /\ jobs' = w.jobs
    /\ connections' = w.connections
    /\ procs' = w.procs
    /\ kq' = w.kq
    /\ fdtable' = w.fdtable
    /\ async_enabled' = w.async_enabled
    /\ batch_disabler_count' = w.batch_disabler_count
    /\ total_children' = w.total_children
    /\ shutdown_in_progress' = w.shutdown_in_progress

Has(w, id) == \E i \in 1..Len(w.jobs) : w.jobs[i].id = id
Idx(w, id) == CHOOSE i \in 1..Len(w.jobs) : w.jobs[i].id = id
Job(w, id) == w.jobs[Idx(w, id)]
\* j->field = value
Set(w, id, field, value) == [w EXCEPT !.jobs[Idx(w, id)][field] = value]

----------------------------------------------------------------------------
(* kevent_mod(): EV_ADD adds the knote or, when (ident, filter) is already  *)
(* registered, replaces its udata; EV_DELETE removes it.  Timers and vnode  *)
(* knotes live on asynckq, all others on mainkq.  A descriptor below zero   *)
(* is refused by the kernel (EBADF), which the callers only log.            *)

Queue(filter) == IF filter \in {"TIMER", "VNODE"} THEN "asynckq" ELSE "mainkq"

kevent_add(w, ident, filter, oneshot, udata) ==
    IF ident < 0 THEN w
    ELSE [w EXCEPT !.kq =
            {k \in @ : ~(k.ident = ident /\ k.filter = filter)}
            \cup {[ident |-> ident, filter |-> filter, oneshot |-> oneshot,
                   udata |-> udata]}]

kevent_delete(w, ident, filter) ==
    [w EXCEPT !.kq = {k \in @ : ~(k.ident = ident /\ k.filter = filter)}]

\* close(2) of a descriptor drops the knotes that watch it
close(w, fd) ==
    [w EXCEPT !.kq = {k \in @ : ~(k.ident = fd /\ k.filter \in {"READ", "VNODE"})},
              !.fdtable = @ \ {fd}]

\* a descriptor the supervisor has got from open(), socketpair(), accept()
\* or with a message; a failed call (-1) gives none
opened(w, fd) == IF fd > 0 THEN [w EXCEPT !.fdtable = @ \cup {fd}] ELSE w

RECURSIVE OpenedAll(_, _)
OpenedAll(w, fds) ==
    IF fds = <<>> THEN w ELSE OpenedAll(opened(w, Head(fds)), Tail(fds))

Registered(w, ident, filter) ==
    \E k \in w.kq : k.ident = ident /\ k.filter = filter

----------------------------------------------------------------------------
(* ipc_open / ipc_close *)

\* socketpair(): the lowest descriptor not held by a connection
FreeConnFd(w) ==
    ConnFd(CHOOSE n \in 1..(scope.conns + 1) :
               /\ \A c \in w.connections : c.fd # ConnFd(n)
               /\ \A m \in 1..(n - 1) : \E c \in w.connections : c.fd = ConnFd(m))

\* peer is the process at the other end, peer_open whether it still holds it
ipc_open(w, fd, j, peer) ==
    kevent_add([w EXCEPT !.connections =
                    @ \cup {[fd |-> fd, j |-> j, disabled_batch |-> FALSE,
                             peer |-> peer, peer_open |-> TRUE]}],
               fd, "READ", FALSE, ConnUdata(fd))

\* c->disabled_batch = v
Flag(w, c, v) ==
    [w EXCEPT !.connections =
        {IF d.fd = c.fd THEN [d EXCEPT !.disabled_batch = v] ELSE d : d \in @}]

\* kevent_mod(asynckq, EVFILT_READ, EV_ENABLE or EV_DISABLE, ...) when the
\* count is zero
async_if_zero(w, enable) ==
    IF w.batch_disabler_count = 0 THEN [w EXCEPT !.async_enabled = enable] ELSE w

\* batch_job_enable without the test of c->disabled_batch
batch_job_enable_uncounted(w, e, c) ==
    IF e
    THEN async_if_zero(Flag([w EXCEPT !.batch_disabler_count = @ - 1], c, FALSE), TRUE)
    ELSE Flag([async_if_zero(w, FALSE) EXCEPT !.batch_disabler_count = @ + 1], c, TRUE)

batch_job_enable(w, e, c) ==
    IF e /\ c.disabled_batch
    THEN async_if_zero(Flag([w EXCEPT !.batch_disabler_count = @ - 1], c, FALSE), TRUE)
    ELSE IF ~e /\ ~c.disabled_batch
    THEN Flag([async_if_zero(w, FALSE) EXCEPT !.batch_disabler_count = @ + 1], c, TRUE)
    ELSE w

\* TAILQ_REMOVE(&connections, c, tqe); launchd_close(c->conn)
ipc_close_conn(w, c) ==
    close([w EXCEPT !.connections = {d \in @ : d.fd # c.fd}], c.fd)

ipc_close(w, c) == ipc_close_conn(batch_job_enable(w, TRUE, c), c)

----------------------------------------------------------------------------
(* job_ignore / job_watch_fds *)

job_ignore_fds(w, id) ==
    LET ldj == Job(w, id).ldj
    IN  IF "Sockets" \in DOMAIN ldj /\ ldj["Sockets"] # -1
        THEN kevent_delete(w, ldj["Sockets"], "READ")
        ELSE w

DeleteAll(w, fds, filter) ==
    [w EXCEPT !.kq = {k \in @ : ~(k.filter = filter /\ k.ident \in fds)}]

SeqRange(s) == {s[i] : i \in 1..Len(s)}

job_ignore(w, id) ==
    DeleteAll(DeleteAll(job_ignore_fds(w, id), SeqRange(Job(w, id).vnodes), "VNODE"),
              SeqRange(Job(w, id).qdirs), "VNODE")

job_watch_fds(w, id) ==
    LET ldj == Job(w, id).ldj
    IN  IF "Sockets" \in DOMAIN ldj /\ ldj["Sockets"] # -1
        THEN kevent_add(w, ldj["Sockets"], "READ", FALSE, JobUdata(id))
        ELSE w

----------------------------------------------------------------------------
(* job_start.  fork() fails when the kernel says so (e.forkok is false) or *)
(* when the process table is full.  The child blocks on the exec pipe      *)
(* until the parent's write at the end of the handler, so it leaves the     *)
(* handler released and not yet exec'd.                                     *)

FreePids(w) == {p \in 1..scope.nproc : w.procs[p] = "free"}

fork(w, e) ==
    IF e.forkok /\ FreePids(w) # {}
    THEN CHOOSE p \in FreePids(w) : \A q \in FreePids(w) : p <= q
    ELSE -1

\* if (od) job_ignore(j)
ignore_od(w, id) ==
    IF job_get_bool(Job(w, id).ldj, "OnDemand") THEN job_ignore(w, id) ELSE w

\* if (sipc) ipc_open(spair[0], j)
ipc_open_sipc(w, sipc, id, c) ==
    IF sipc THEN ipc_open(opened(w, FreeConnFd(w)), FreeConnFd(w), id, c) ELSE w

\* the parent's side of the switch on fork()'s result c
job_start_parent(w, id, c, sipc) ==
    IF c = -1 THEN ignore_od(w, id)
    ELSE LET w2 == [opened(Set(w, id, "execfd", ExecFd(c)), ExecFd(c))
                        EXCEPT !.procs[c] = "released"]
             w3 == ipc_open_sipc(w2, sipc, id, c)
             w4 == kevent_add(w3, ExecFd(c), "READ", FALSE, JobUdata(id))
             w5 == kevent_add(w4, c, "PROC", TRUE, JobUdata(id))
             w6 == [Set(w5, id, "p", c) EXCEPT !.total_children = @ + 1]
         IN  ignore_od(w6, id)

\* job_start without the test of j->p
job_start_unguarded(w, id, e) ==
    job_start_parent(Set(w, id, "checkedin", FALSE), id, fork(w, e),
                     job_get_bool(Job(w, id).ldj, "ServiceIPC"))

job_start(w, id, e) ==
    LET j == Job(w, id)
        sipc == job_get_bool(j.ldj, "ServiceIPC")
                    \/ "InetdCompatibility" \in DOMAIN j.ldj
    IN  IF j.p # 0 THEN w
        ELSE job_start_parent(Set(w, id, "checkedin", FALSE), id, fork(w, e), sipc)

\* if (c) job_start(j)
job_start_if(w, c, id, e) == IF c THEN job_start(w, id, e) ELSE w

----------------------------------------------------------------------------
(* job_watch *)

open(fd, e) == IF e.open THEN fd ELSE -1

Reopen(fds, fd, e) ==
    [i \in 1..Len(fds) |-> IF fds[i] = -1 THEN open(fd, e) ELSE fds[i]]

RECURSIVE AddVnodes(_, _, _)
AddVnodes(w, fds, id) ==
    IF fds = <<>> THEN w
    ELSE AddVnodes(kevent_add(w, Head(fds), "VNODE", FALSE, JobUdata(id)), Tail(fds), id)

\* the loop over j->vnodes: a path closed by an invalidation is opened again
job_watch_vnodes(w, id, e) ==
    AddVnodes(OpenedAll(Set(w, id, "vnodes", Reopen(Job(w, id).vnodes, VnodeFd(id), e)),
                        Reopen(Job(w, id).vnodes, VnodeFd(id), e)),
              Reopen(Job(w, id).vnodes, VnodeFd(id), e), id)

job_watch(w, id, e) ==
    LET w1 == job_watch_fds(w, id)
        w2 == job_watch_vnodes(w1, id, e)
        w3 == AddVnodes(w2, Job(w, id).qdirs, id)
    IN  job_start_if(w3, Len(Job(w, id).qdirs) > 0 /\ e.dir > 0
                             /\ ~w.shutdown_in_progress, id, e)

\* kill(p, SIGTERM): w.sent collects the pids the handler signals
kill(w, p) == [w EXCEPT !.sent = @ \cup {p}]

job_stop(w, id) == IF Job(w, id).p # 0 THEN kill(w, Job(w, id).p) ELSE w

----------------------------------------------------------------------------
(* job_reap: waitpid() frees the pid; e.td is time(NULL) - j->start_time   *)
(* and e.status what waitpid() reports (a child whose exec failed has      *)
(* called _exit(EXIT_FAILURE)).  total_children is a size_t: below zero it  *)
(* wraps to the largest value (TLC's largest integer stands for it).       *)

SIZE_MAX == (2 ^ 30 - 1) * 2 + 1

size_dec(n) == IF n = 0 THEN SIZE_MAX ELSE n - 1

ExitStatus(w, pid, e) == IF w.procs[pid] = "execfailed" THEN "exit1" ELSE e.status

\* if (j->execfd) { close(j->execfd); j->execfd = 0; }
close_execfd(w, id) ==
    IF Job(w, id).execfd # 0
    THEN close(Set(w, id, "execfd", 0), Job(w, id).execfd)
    ELSE w

\* job_reap without j->p = 0
job_reap_keeps_pid(w, id, e) ==
    LET j == Job(w, id)
        od == job_get_bool(j.ldj, "OnDemand")
        status == ExitStatus(w, j.p, e)
        bad_status == \/ WIFEXITED(status) /\ WEXITSTATUS(status) # 0
                      \/ WIFSIGNALED(status) /\ status \notin {"SIGKILL", "SIGTERM"}
        quick == ~od /\ e.td < LAUNCHD_MIN_JOB_RUN_TIME
        reward == ~od /\ ~quick /\ e.td >= LAUNCHD_REWARD_JOB_RUN_TIME
        bad_exit == bad_status \/ quick
        forgiven == IF reward THEN 0 ELSE j.failed_exits
        w1 == close_execfd(w, id)
        w2 == Set(w1, id, "throttle", quick \/ j.throttle)
        w3 == Set(w2, id, "failed_exits", IF bad_exit THEN forgiven + 1 ELSE forgiven)
    IN  [w3 EXCEPT !.procs[j.p] = "free", !.total_children = size_dec(@)]

\* job_reap that forgives after more than LAUNCHD_REWARD_JOB_RUN_TIME only
job_reap_late_reward(w, id, e) ==
    LET j == Job(w, id)
        od == job_get_bool(j.ldj, "OnDemand")
        status == ExitStatus(w, j.p, e)
        bad_status == \/ WIFEXITED(status) /\ WEXITSTATUS(status) # 0
                      \/ WIFSIGNALED(status) /\ status \notin {"SIGKILL", "SIGTERM"}
        quick == ~od /\ e.td < LAUNCHD_MIN_JOB_RUN_TIME
        reward == ~od /\ ~quick /\ e.td > LAUNCHD_REWARD_JOB_RUN_TIME
        bad_exit == bad_status \/ quick
        forgiven == IF reward THEN 0 ELSE j.failed_exits
        w1 == close_execfd(w, id)
        w2 == Set(w1, id, "throttle", quick \/ j.throttle)
        w3 == Set(w2, id, "failed_exits", IF bad_exit THEN forgiven + 1 ELSE forgiven)
        w4 == Set(w3, id, "p", 0)
    IN  [w4 EXCEPT !.procs[j.p] = "free", !.total_children = size_dec(@)]

\* job_reap that counts every termination by a signal as a bad exit
job_reap_any_signal(w, id, e) ==
    LET j == Job(w, id)
        od == job_get_bool(j.ldj, "OnDemand")
        status == ExitStatus(w, j.p, e)
        bad_status == \/ WIFEXITED(status) /\ WEXITSTATUS(status) # 0
                      \/ WIFSIGNALED(status)
        quick == ~od /\ e.td < LAUNCHD_MIN_JOB_RUN_TIME
        reward == ~od /\ ~quick /\ e.td >= LAUNCHD_REWARD_JOB_RUN_TIME
        bad_exit == bad_status \/ quick
        forgiven == IF reward THEN 0 ELSE j.failed_exits
        w1 == close_execfd(w, id)
        w2 == Set(w1, id, "throttle", quick \/ j.throttle)
        w3 == Set(w2, id, "failed_exits", IF bad_exit THEN forgiven + 1 ELSE forgiven)
        w4 == Set(w3, id, "p", 0)
    IN  [w4 EXCEPT !.procs[j.p] = "free", !.total_children = size_dec(@)]

job_reap(w, id, e) ==
    LET j == Job(w, id)
        od == job_get_bool(j.ldj, "OnDemand")
        status == ExitStatus(w, j.p, e)
        bad_status == \/ WIFEXITED(status) /\ WEXITSTATUS(status) # 0
                      \/ WIFSIGNALED(status) /\ status \notin {"SIGKILL", "SIGTERM"}
        quick == ~od /\ e.td < LAUNCHD_MIN_JOB_RUN_TIME
        reward == ~od /\ ~quick /\ e.td >= LAUNCHD_REWARD_JOB_RUN_TIME
        bad_exit == bad_status \/ quick
        forgiven == IF reward THEN 0 ELSE j.failed_exits
        w1 == close_execfd(w, id)
        w2 == Set(w1, id, "throttle", quick \/ j.throttle)
        w3 == Set(w2, id, "failed_exits", IF bad_exit THEN forgiven + 1 ELSE forgiven)
        w4 == Set(w3, id, "p", 0)
    IN  [w4 EXCEPT !.procs[j.p] = "free", !.total_children = size_dec(@)]

----------------------------------------------------------------------------
(* job_remove.  The EV_ADD of the zombie reaper re-points the job's own    *)
(* EVFILT_PROC knote, which is registered as long as j->p is set, so it    *)
(* succeeds and the job_reap branch is not taken.                          *)

close_fd(w, fd) == IF fd > 0 THEN close(w, fd) ELSE w

RECURSIVE CloseAll(_, _)
CloseAll(w, fds) ==
    IF fds = <<>> THEN w ELSE CloseAll(close_fd(w, Head(fds)), Tail(fds))

launch_data_close_fds(w, ldj) ==
    IF "Sockets" \in DOMAIN ldj THEN close_fd(w, ldj["Sockets"]) ELSE w

\* if (j->p) the child is left to simple_zombie_reaper
job_remove_child(w, id, p) ==
    IF p # 0 THEN kill(kevent_add(w, p, "PROC", TRUE, ReaperUdata), p) ELSE w

\* if (ident) kevent_mod(ident, EVFILT_TIMER, EV_DELETE, ...)
job_remove_timer(w, ident) ==
    IF ident # 0 THEN kevent_delete(w, ident, "TIMER") ELSE w

\* job_remove without the close of j->execfd
job_remove_keeps_execfd(w, id) ==
    LET j == Job(w, id)
        w1 == [w EXCEPT !.jobs = SelectSeq(@, LAMBDA x : x.id # id)]
        w2 == job_remove_child(w1, id, j.p)
        w3 == launch_data_close_fds(w2, j.ldj)
        w5 == CloseAll(CloseAll(w3, j.vnodes), j.qdirs)
        w6 == job_remove_timer(w5, IF j.start_interval # 0 THEN IntervalIdent(id) ELSE 0)
        w7 == job_remove_timer(w6, j.start_cal_interval)
    IN  kevent_delete(w7, id, "TIMER")

\* job_remove without the EV_DELETE of the throttle timer
job_remove_keeps_timer(w, id) ==
    LET j == Job(w, id)
        w1 == [w EXCEPT !.jobs = SelectSeq(@, LAMBDA x : x.id # id)]
        w2 == job_remove_child(w1, id, j.p)
        w3 == launch_data_close_fds(w2, j.ldj)
        w4 == close_fd(w3, j.execfd)
        w5 == CloseAll(CloseAll(w4, j.vnodes), j.qdirs)
        w6 == job_remove_timer(w5, IF j.start_interval # 0 THEN IntervalIdent(id) ELSE 0)
    IN  job_remove_timer(w6, j.start_cal_interval)

job_remove(w, id) ==
    LET j == Job(w, id)
        w1 == [w EXCEPT !.jobs = SelectSeq(@, LAMBDA x : x.id # id)]
        w2 == job_remove_child(w1, id, j.p)
        w3 == launch_data_close_fds(w2, j.ldj)
        w4 == close_fd(w3, j.execfd)
        w5 == CloseAll(CloseAll(w4, j.vnodes), j.qdirs)
        w6 == job_remove_timer(w5, IF j.start_interval # 0 THEN IntervalIdent(id) ELSE 0)
        w7 == job_remove_timer(w6, j.start_cal_interval)
    IN  kevent_delete(w7, id, "TIMER")

----------------------------------------------------------------------------
(* do_shutdown, job_restart_fitness_test, job_set_alarm *)

\* TAILQ_FOREACH(j, &jobs, tqe) job_stop(j)
StopAll(w) ==
    [w EXCEPT !.sent = @ \cup {w.jobs[i].p : i \in {k \in 1..Len(w.jobs) : w.jobs[k].p # 0}}]

do_shutdown(w) ==
    StopAll([w EXCEPT !.shutdown_in_progress = TRUE, !.async_enabled = FALSE])

Reply(w, resp) == [w |-> w, resp |-> resp]

\* the fitness test that shuts down at the firstborn's death without the
\* signals of do_shutdown
job_restart_fitness_test_quiet(w, id, e) ==
    LET j == Job(w, id)
        od == job_get_bool(j.ldj, "OnDemand")
    IN  IF j.firstborn
        THEN Reply([w EXCEPT !.shutdown_in_progress = TRUE, !.async_enabled = FALSE],
                   FALSE)
        ELSE IF job_get_bool(j.ldj, "ServiceIPC") /\ ~j.checkedin
        THEN Reply(job_remove(w, id), FALSE)
        ELSE IF j.failed_exits >= LAUNCHD_FAILED_EXITS_THRESHOLD
        THEN Reply(job_remove(w, id), FALSE)
        ELSE IF od \/ w.shutdown_in_progress
        THEN Reply(job_watch(w, id, e), FALSE)
        ELSE Reply(w, TRUE)

\* the fitness test with > for >= at the threshold
job_restart_fitness_test_one_more(w, id, e) ==
    LET j == Job(w, id)
        od == job_get_bool(j.ldj, "OnDemand")
    IN  IF j.firstborn
        THEN Reply(do_shutdown(w), FALSE)
        ELSE IF job_get_bool(j.ldj, "ServiceIPC") /\ ~j.checkedin
        THEN Reply(job_remove(w, id), FALSE)
        ELSE IF j.failed_exits > LAUNCHD_FAILED_EXITS_THRESHOLD
        THEN Reply(job_remove(w, id), FALSE)
        ELSE IF od \/ w.shutdown_in_progress
        THEN Reply(job_watch(w, id, e), FALSE)
        ELSE Reply(w, TRUE)

\* the globals after the test and, as resp, what it returns
job_restart_fitness_test(w, id, e) ==
    LET j == Job(w, id)
        od == job_get_bool(j.ldj, "OnDemand")
    IN  IF j.firstborn
        THEN Reply(do_shutdown(w), FALSE)
        ELSE IF job_get_bool(j.ldj, "ServiceIPC") /\ ~j.checkedin
        THEN Reply(job_remove(w, id), FALSE)
        ELSE IF j.failed_exits >= LAUNCHD_FAILED_EXITS_THRESHOLD
        THEN Reply(job_remove(w, id), FALSE)
        ELSE IF od \/ w.shutdown_in_progress
        THEN Reply(job_watch(w, id, e), FALSE)
        ELSE Reply(w, TRUE)

\* kevent_mod(j->start_cal_interval, EVFILT_TIMER, EV_ADD, NOTE_ABSOLUTE |
\* NOTE_SECONDS, later, j): a timer of an absolute time is delivered once
job_set_alarm(w, id) ==
    kevent_add(w, Job(w, id).start_cal_interval, "TIMER", TRUE, JobUdata(id))

----------------------------------------------------------------------------
(* job_callback.  kev = [filter, ident, data, invalid]: data > 0 is an     *)
(* errno waiting in the exec pipe, invalid a NOTE_DELETE/RENAME/REVOKE.    *)

\* EVFILT_PROC, after job_reap and the fitness test ft: the throttle timer,
\* or the start at the end of job_callback
job_callback_proc(ft, id, e) ==
    IF ft.resp /\ Job(ft.w, id).throttle
    THEN kevent_add(Set(ft.w, id, "throttle", FALSE), id, "TIMER", TRUE, JobUdata(id))
    ELSE job_start_if(ft.w, ft.resp, id, e)

\* EVFILT_VNODE: the loop over j->vnodes
Invalidate(w, id, kev) ==
    LET j == Job(w, id)
        vn == [i \in 1..Len(j.vnodes) |->
                 IF j.vnodes[i] = kev.ident THEN -1 ELSE j.vnodes[i]]
    IN  IF kev.ident \in SeqRange(j.vnodes) /\ kev.invalid
        THEN close(Set(w, id, "vnodes", vn), kev.ident)
        ELSE w

\* EVFILT_READ on j->execfd
job_callback_execfd(w, id, kev) ==
    IF kev.data > 0 THEN job_remove(w, id) ELSE close_execfd(w, id)

\* job_callback that starts the job at its calendar alarm and sets no other
job_callback_no_alarm(w, id, kev, e) ==
    LET j == Job(w, id)
    IN  IF kev.filter = "PROC"
        THEN job_callback_proc(job_restart_fitness_test(job_reap(w, id, e), id, e), id, e)
        ELSE IF kev.filter = "VNODE"
        THEN job_start_if(Invalidate(w, id, kev),
                          ~(kev.ident \in SeqRange(j.qdirs) /\ e.dir = 0), id, e)
        ELSE IF kev.filter = "READ" /\ kev.ident = j.execfd
        THEN job_callback_execfd(w, id, kev)
        ELSE job_start(w, id, e)

job_callback(w, id, kev, e) ==
    LET j == Job(w, id)
    IN  IF kev.filter = "PROC"
        THEN job_callback_proc(job_restart_fitness_test(job_reap(w, id, e), id, e), id, e)
        ELSE IF kev.filter = "TIMER" /\ kev.ident = j.start_cal_interval
        THEN job_start(job_set_alarm(w, id), id, e)
        ELSE IF kev.filter = "VNODE"
        THEN job_start_if(Invalidate(w, id, kev),
                          ~(kev.ident \in SeqRange(j.qdirs) /\ e.dir = 0), id, e)
        ELSE IF kev.filter = "READ" /\ kev.ident = j.execfd
        THEN job_callback_execfd(w, id, kev)
        ELSE job_start(w, id, e)

----------------------------------------------------------------------------
(* load_job *)

E0 == "0"

FreeIds(w) == {i \in JobIds : ~Has(w, i)}
calloc(w) ==
    IF FreeIds(w) = {} THEN MaxJobs + 1
    ELSE CHOOSE i \in FreeIds(w) : \A k \in FreeIds(w) : i <= k

LabelInUse(w, label) == \E i \in 1..Len(w.jobs) : w.jobs[i].label = label

\* the jobcb filled in from the description
jobcb(id, ldj, e) ==
    [id |-> id, label |-> ldj["Label"], ldj |-> ldj, p |-> 0, execfd |-> 0,
     failed_exits |-> 0,
     vnodes |-> IF "WatchPaths" \in DOMAIN ldj THEN <<open(VnodeFd(id), e)>> ELSE <<>>,
     qdirs |-> IF "QueueDirectories" \in DOMAIN ldj
               THEN <<open(QdirFd(id), e)>> ELSE <<>>,
     start_interval |-> IF "StartInterval" \in DOMAIN ldj THEN ldj["StartInterval"] ELSE 0,
     start_cal_interval |-> IF "StartCalendarInterval" \in DOMAIN ldj
                            THEN CalIdent(id) ELSE 0,
     checkedin |-> FALSE, firstborn |-> FALSE, throttle |-> FALSE]

\* if (j->start_interval) kevent_mod(&j->start_interval, EVFILT_TIMER, EV_ADD, ...)
load_job_interval(w, id) ==
    IF Job(w, id).start_interval # 0
    THEN kevent_add(w, IntervalIdent(id), "TIMER", FALSE, JobUdata(id))
    ELSE w

\* if (j->start_cal_interval) job_set_alarm(j)
load_job_alarm(w, id) ==
    IF Job(w, id).start_cal_interval # 0 THEN job_set_alarm(w, id) ELSE w

\* if (OnDemand) job_watch(j)
load_job_watch(w, id, e) ==
    IF job_get_bool(Job(w, id).ldj, "OnDemand") THEN job_watch(w, id, e) ELSE w

\* the description with the OnDemand default filled in
WithDefault(pload) ==
    IF "OnDemand" \in DOMAIN pload THEN pload ELSE pload @@ [OnDemand |-> TRUE]

\* the descriptors load_job has opened for j->qdirs and j->vnodes
load_job_opened(w, id) == OpenedAll(w, Job(w, id).qdirs \o Job(w, id).vnodes)

\* load_job once the description is accepted and j is allocated at id
load_job_accepted(w, id, ldj, e) ==
    LET w1 == load_job_opened([w EXCEPT !.jobs = Append(@, jobcb(id, ldj, e))], id)
        w2 == load_job_interval(w1, id)
        w3 == load_job_alarm(w2, id)
        w4 == load_job_watch(w3, id, e)
    IN  job_start_if(w4, ~job_get_bool(ldj, "OnDemand") \/ job_get_bool(ldj, "RunAtLoad"),
                     id, e)

\* load_job without the TAILQ_FOREACH that looks the label up
load_job_no_lookup(w, pload, e) ==
    IF "Label" \notin DOMAIN pload
    THEN Reply(w, "EINVAL")
    ELSE IF "Program" \notin DOMAIN pload /\ "ProgramArguments" \notin DOMAIN pload
    THEN Reply(w, "EINVAL")
    ELSE Reply(load_job_accepted(w, calloc(w), WithDefault(pload), e), E0)

\* load_job that looks for Program and ProgramArguments after TAILQ_INSERT_TAIL
load_job_insert_first(w, pload, e) ==
    IF "Label" \notin DOMAIN pload
    THEN Reply(w, "EINVAL")
    ELSE IF LabelInUse(w, pload["Label"])
    THEN Reply(w, "EEXIST")
    ELSE IF "Program" \notin DOMAIN pload /\ "ProgramArguments" \notin DOMAIN pload
    THEN Reply([w EXCEPT !.jobs = Append(@, jobcb(calloc(w), WithDefault(pload), e))],
               "EINVAL")
    ELSE Reply(load_job_accepted(w, calloc(w), WithDefault(pload), e), E0)

load_job(w, pload, e) ==
    IF "Label" \notin DOMAIN pload
    THEN Reply(w, "EINVAL")
    ELSE IF LabelInUse(w, pload["Label"])
    THEN Reply(w, "EEXIST")
    ELSE IF "Program" \notin DOMAIN pload /\ "ProgramArguments" \notin DOMAIN pload
    THEN Reply(w, "EINVAL")
    ELSE Reply(load_job_accepted(w, calloc(w), WithDefault(pload), e), E0)

----------------------------------------------------------------------------
(* ipc_readmsg2: the commands.  Each returns the new globals and the       *)
(* response.  TAILQ_FOREACH visits the entries in list order.              *)

RECURSIVE Matching(_, _)
Matching(js, label) ==
    IF js = <<>> THEN <<>>
    ELSE (IF Head(js).label = label THEN <<Head(js).id>> ELSE <<>>)
            \o Matching(Tail(js), label)

RECURSIVE StartEach(_, _, _)
StartEach(w, ids, e) ==
    IF ids = <<>> THEN w ELSE StartEach(job_start(w, Head(ids), e), Tail(ids), e)

RECURSIVE StopEach(_, _)
StopEach(w, ids) ==
    IF ids = <<>> THEN w ELSE StopEach(job_stop(w, Head(ids)), Tail(ids))

\* job_remove() frees the entry the loop stands on, and TAILQ_FOREACH then
\* reads its link: the link still holds the successor ("intact") or the
\* allocator has cleared it and the loop ends ("cleared").
RECURSIVE RemoveEach(_, _, _)
RemoveEach(w, ids, link) ==
    IF ids = <<>> THEN w
    ELSE IF link = "cleared" THEN job_remove(w, Head(ids))
    ELSE RemoveEach(job_remove(w, Head(ids)), Tail(ids), link)

Found(w, label) == IF Matching(w.jobs, label) # <<>> THEN E0 ELSE "ESRCH"

StartJobCmd(w, label, e) ==
    Reply(StartEach(w, Matching(w.jobs, label), e), <<Found(w, label)>>)

StopJobCmd(w, label) ==
    Reply(StopEach(w, Matching(w.jobs, label)), <<Found(w, label)>>)

\* RemoveJob that looks the label up for its response after the loop has run
RemoveJobCmd_answer_last(w, label, link) ==
    Reply(RemoveEach(w, Matching(w.jobs, label), link),
          <<Found(RemoveEach(w, Matching(w.jobs, label), link), label)>>)

RemoveJobCmd(w, label, link) ==
    Reply(RemoveEach(w, Matching(w.jobs, label), link), <<Found(w, label)>>)

\* SubmitJob: one response for a dictionary, an array of them for an array
Answer(r, one) == Reply(one.w, r.resp \o <<one.resp>>)

RECURSIVE SubmitEach(_, _, _)
SubmitEach(r, ploads, e) ==
    IF ploads = <<>> THEN r
    ELSE SubmitEach(Answer(r, load_job(r.w, Head(ploads), e)), Tail(ploads), e)

\* the descriptors of a message
MsgFds(pload) ==
    IF "Sockets" \in DOMAIN pload /\ pload["Sockets"] # -1 THEN <<pload["Sockets"]>> ELSE <<>>

\* launchd_msg_recv: the descriptors of the message are open in the supervisor
RECURSIVE recv(_, _)
recv(w, ploads) ==
    IF ploads = <<>> THEN w ELSE recv(OpenedAll(w, MsgFds(Head(ploads))), Tail(ploads))

\* ipc_readmsg: launch_data_close_fds(msg) closes what load_job has not
\* taken (it revokes the descriptors of a description it accepts)
RECURSIVE close_msg(_, _)
close_msg(r, ploads) ==
    IF ploads = <<>> THEN r
    ELSE close_msg(IF Head(r.resp) = E0 THEN [r EXCEPT !.resp = Tail(@)]
                   ELSE Reply(CloseAll(r.w, MsgFds(Head(ploads))), Tail(r.resp)),
                   Tail(ploads))

Answered(r, done) == Reply(done.w, r.resp)

SubmitJobCmd(w, ploads, e) ==
    Answered(SubmitEach(Reply(recv(w, ploads), <<>>), ploads, e),
             close_msg(SubmitEach(Reply(recv(w, ploads), <<>>), ploads, e), ploads))

\* CheckIn reads and marks the job the connection points to.  The entry at
\* that address is the job's, or, after the job was removed, whatever job
\* was allocated there since; a freed entry not handed out again is junk.
\* launch_data_copy(ldj), with LAUNCH_JOBKEY_TIMEOUT inserted when the lookup
\* finds none
WithTimeOut(ldj) ==
    IF "TimeOut" \in DOMAIN ldj THEN ldj
    ELSE ldj @@ [TimeOut |-> LAUNCHD_MIN_JOB_RUN_TIME]

CheckInCmd(w, c) ==
    IF c.j = 0 THEN Reply(w, <<"EACCES">>)
    ELSE IF Has(w, c.j)
    THEN Reply(Set(w, c.j, "checkedin", TRUE), <<WithTimeOut(Job(w, c.j).ldj)>>)
    ELSE Reply(w, <<"junk">>)

ShutdownCmd(w) == Reply(do_shutdown(w), <<E0>>)

BatchControlCmd(w, e, c) == Reply(batch_job_enable(w, e, c), <<E0>>)

BatchQueryCmd(w) == Reply(w, <<w.batch_disabler_count = 0>>)

\* launch_data_revoke_fds: every descriptor of the value becomes -1
launch_data_revoke_fds(ldj) ==
    [k \in DOMAIN ldj |-> IF k = "Sockets" THEN -1 ELSE ldj[k]]

\* get_jobs(which): the copy of the last entry of the list with that label
RECURSIVE get_jobs(_, _, _)
get_jobs(js, which, resp) ==
    IF js = <<>> THEN resp
    ELSE get_jobs(Tail(js), which,
                  IF Head(js).label = which THEN <<Head(js).ldj>> ELSE resp)

GetJobWithHandlesCmd(w, which) ==
    Reply(w, IF get_jobs(w.jobs, which, <<>>) = <<>> THEN <<"ESRCH">>
             ELSE get_jobs(w.jobs, which, <<>>))

\* GetJob that does not revoke the descriptors of the copy
GetJobCmd_handles(w, which) ==
    Reply(w, IF get_jobs(w.jobs, which, <<>>) = <<>> THEN <<"ESRCH">>
             ELSE get_jobs(w.jobs, which, <<>>))

GetJobCmd(w, which) ==
    Reply(w, IF get_jobs(w.jobs, which, <<>>) = <<>> THEN <<"ESRCH">>
             ELSE <<launch_data_revoke_fds(get_jobs(w.jobs, which, <<>>)[1])>>)

\* get_jobs(NULL): a dictionary of the copies by label, revoked
GetJobsCmd(w) ==
    Reply(w, <<[l \in {w.jobs[i].label : i \in 1..Len(w.jobs)} |->
                launch_data_revoke_fds(get_jobs(w.jobs, l, <<>>)[1])]>>)

----------------------------------------------------------------------------
(* ipc_readmsg: a message is a launch_data value: a string, a dictionary   *)
(* (its entries in the order of iteration) or a value of another type.     *)
(* rmc.resp is the response so far, empty while it is NULL.                *)

String(str) == [type |-> "string", string |-> str]
Dictionary(entries) == [type |-> "dictionary", entries |-> entries]
Entry(key, data) == [key |-> key, data |-> data]
OtherTypes == <<"array", "fd", "integer", "real", "bool", "opaque", "errno">>

LoadJobCmd(w, data, e) == Answer(Reply(w, <<>>), load_job(w, data, e))

ipc_readmsg2(rmc, data, cmd, c, e, link) ==
    IF Len(rmc.resp) > 0 THEN rmc
    ELSE CASE cmd = "StartJob" -> StartJobCmd(rmc.w, data, e)
           [] cmd = "StopJob" -> StopJobCmd(rmc.w, data)
           [] cmd = "RemoveJob" -> RemoveJobCmd(rmc.w, data, link)
           [] cmd = "SubmitJob" -> LoadJobCmd(rmc.w, data, e)
           [] cmd = "CheckIn" -> CheckInCmd(rmc.w, c)
           [] cmd = "Shutdown" -> ShutdownCmd(rmc.w)
           [] cmd = "GetJobs" -> GetJobsCmd(rmc.w)
           [] cmd = "GetJob" -> GetJobCmd(rmc.w, data)
           [] cmd = "GetJobWithHandles" -> GetJobWithHandlesCmd(rmc.w, data)
           [] cmd = "BatchControl" -> BatchControlCmd(rmc.w, data, c)
           [] cmd = "BatchQuery" -> BatchQueryCmd(rmc.w)
           [] OTHER -> rmc

RECURSIVE launch_data_dict_iterate(_, _, _, _, _)
launch_data_dict_iterate(rmc, entries, c, e, link) ==
    IF entries = <<>> THEN rmc
    ELSE launch_data_dict_iterate(
             ipc_readmsg2(rmc, Head(entries).data, Head(entries).key, c, e, link),
             Tail(entries), c, e, link)

\* ipc_readmsg that sends what the commands have left
ipc_readmsg_no_default(w, msg, c, e, link) ==
    IF msg.type = "dictionary"
    THEN launch_data_dict_iterate(Reply(w, <<>>), msg.entries, c, e, link)
    ELSE IF msg.type = "string"
    THEN ipc_readmsg2(Reply(w, <<>>), <<>>, msg.string, c, e, link)
    ELSE Reply(w, <<"EINVAL">>)

\* if (NULL == rmc.resp) rmc.resp = launch_data_new_errno(ENOSYS)
or_ENOSYS(rmc) == IF Len(rmc.resp) = 0 THEN Reply(rmc.w, <<"ENOSYS">>) ELSE rmc

\* the response is what launchd_msg_send(rmc.c->conn, rmc.resp) sends
ipc_readmsg(w, msg, c, e, link) ==
    or_ENOSYS(
        IF msg.type = "dictionary"
        THEN launch_data_dict_iterate(Reply(w, <<>>), msg.entries, c, e, link)
        ELSE IF msg.type = "string"
        THEN ipc_readmsg2(Reply(w, <<>>), <<>>, msg.string, c, e, link)
        ELSE Reply(w, <<"EINVAL">>))

----------------------------------------------------------------------------
(* The reactor: main()'s loop waits for one event unless it exits first.   *)
(* An action draws what the environment decides in its handler: e.forkok   *)
(* (fork succeeds), e.td and e.status (run time and wait status of the     *)
(* child reaped), e.dir (the queue directory probe: -1 unreadable, 0       *)
(* empty, 1 has files), e.open (open() of a watched path succeeds).        *)

Dirs == {-1, 0, 1}
OpenResults == {TRUE}

NoEnv == [forkok |-> TRUE, td |-> 0, status |-> "exit0", dir |-> 0, open |-> TRUE]

Env(reaps, probes) ==
    [forkok : BOOLEAN,
     td     : IF reaps THEN Durations ELSE {0},
     status : IF reaps THEN Statuses ELSE {"exit0"},
     dir    : IF probes THEN Dirs ELSE {0},
     open   : OpenResults]

Probes(ldj) == "QueueDirectories" \in DOMAIN ldj

\* a decision the handler never asks for is not drawn: e stands for its
\* draw unless the handler's result is that of the plain draw
Plain(e) == [e EXCEPT !.forkok = TRUE, !.dir = 0, !.open = TRUE]
Drawn(e, r, rplain) == e = Plain(e) \/ r # rplain

\* op, the label or job it is about, the response and the globals r of the
\* handler run on draw e, and its result on the plain draw
Run(op, label, id, e, r, rplain) ==
    [op |-> op, label |-> label, arg |-> <<>>, id |-> id, e |-> e, r |-> r,
     rplain |-> rplain]

\* SubmitJob: the descriptions sent are recorded too
Sent(ploads, run) == [run EXCEPT !.arg = ploads]

ExitNow == ~pid1 /\ jobs # <<>> /\ shutdown_in_progress /\ total_children = 0

\* no job_start has been left at a statement of its parent branch
NoStart == [pc |-> 0, id |-> 0, c |-> 0, sipc |-> FALSE, sent |-> {}]

\* no launchctl runs
NoCtl == [pc |-> "none"]

\* no session directory in view
NoSession == [dir |-> 0]

\* the main loop is in kevent()
Waiting == alive /\ ~ExitNow /\ handshake.pc = 0

NoJob == [id |-> 0]

Nothing == [op |-> "none", label |-> "", arg |-> <<>>, id |-> 0, resp |-> <<>>,
            td |-> 0, status |-> "exit0", forkok |-> TRUE, dir |-> 0,
            was |-> NoJob, sent |-> {}]

InScope(w) ==
    /\ Len(w.jobs) <= scope.cap
    /\ Cardinality(w.connections) <= scope.conns
    /\ w.total_children <= MaxChildren
    /\ \A i \in 1..Len(w.jobs) : w.jobs[i].failed_exits <= scope.depth

Handled(run) ==
    /\ Drawn(run.e, run.r, run.rplain)
    /\ InScope(run.r.w)
    /\ Commit(run.r.w)
    /\ last' = IF run.op \in scope.watch
               THEN [op |-> run.op, label |-> run.label, arg |-> run.arg,
                     id |-> run.id, resp |-> run.r.resp, td |-> run.e.td,
                     status |-> run.e.status, forkok |-> run.e.forkok,
                     dir |-> run.e.dir,
                     was |-> IF Has(World, run.id) THEN Job(World, run.id) ELSE NoJob,
                     sent |-> run.r.w.sent]
               ELSE Nothing
    /\ UNCHANGED <<pid1, alive, handshake, ctl, session, scope>>

\* a handler that draws nothing
Once(op, label, id, r) == Run(op, label, id, NoEnv, r, r)

LabelOf(pload) == IF "Label" \in DOMAIN pload THEN pload["Label"] ELSE ""

SubmitJob ==
    /\ Waiting
    /\ \E pload \in Descriptions : \E e \in Env(FALSE, Probes(pload)) :
         Handled(Sent(<<pload>>, Run("SubmitJob", LabelOf(pload), 0, e,
                                     SubmitJobCmd(World, <<pload>>, e),
                                     SubmitJobCmd(World, <<pload>>, Plain(e)))))

\* SubmitJob with an array of two descriptions
SubmitJobs ==
    /\ Waiting
    /\ \E p1, p2 \in ArrayDescriptions : \E e \in Env(FALSE, FALSE) :
         Handled(Sent(<<p1, p2>>, Run("SubmitJobs", "", 0, e,
                                      SubmitJobCmd(World, <<p1, p2>>, e),
                                      SubmitJobCmd(World, <<p1, p2>>, Plain(e)))))

AllLabels == scope.labels \cup {FirstbornLabel}

StartJob ==
    /\ Waiting
    /\ \E label \in AllLabels : \E e \in Env(FALSE, FALSE) :
         Handled(Run("StartJob", label, 0, e,
                     StartJobCmd(World, label, e),
                     StartJobCmd(World, label, Plain(e))))

StopJob ==
    /\ Waiting
    /\ \E label \in AllLabels :
         Handled(Once("StopJob", label, 0, StopJobCmd(World, label)))

RemoveJob ==
    /\ Waiting
    /\ \E label \in AllLabels : \E link \in {"intact", "cleared"} :
         Handled(Once("RemoveJob", label, 0, RemoveJobCmd(World, label, link)))

\* the other end of the connection sends: a client that has connected, or
\* the child of the job once it has exec'd
Talks(c) == c.peer_open /\ (IF c.j = 0 THEN TRUE ELSE procs[c.peer] = "running")

CheckIn ==
    /\ Waiting
    /\ \E c \in connections :
         /\ Talks(c)
         /\ Handled(Sent(<<c>>, Once("CheckIn", "", c.j, CheckInCmd(World, c))))

BatchControl ==
    /\ Waiting
    /\ \E c \in connections : \E e \in BOOLEAN :
         /\ Talks(c)
         /\ Handled(Sent(<<e>>, Once("BatchControl", "", c.j,
                                     BatchControlCmd(World, e, c))))

BatchQuery ==
    /\ Waiting
    /\ \E c \in connections :
         /\ Talks(c)
         /\ Handled(Once("BatchQuery", "", c.j, BatchQueryCmd(World)))

\* the messages the clients of the run send, without descriptors: values
\* that are no command, the commands without an argument as strings, and
\* dictionaries of no, one or two entries
Requests ==
    [n \in 1..Len(OtherTypes) |-> [type |-> OtherTypes[n]]]
    \o <<String("GetJobs"), String("CheckIn"), String("Shutdown"),
         String("BatchQuery"), String("NoSuchCommand"),
         Dictionary(<<>>),
         Dictionary(<<Entry("StartJob", "a")>>),
         Dictionary(<<Entry("StopJob", "a")>>),
         Dictionary(<<Entry("RemoveJob", "a")>>),
         Dictionary(<<Entry("GetJob", "a")>>),
         Dictionary(<<Entry("GetJobWithHandles", "a")>>),
         Dictionary(<<Entry("NoSuchCommand", "a")>>),
         Dictionary(<<Entry("BatchControl", FALSE)>>),
         Dictionary(<<Entry("BatchControl", TRUE)>>),
         Dictionary(<<Entry("SubmitJob", [Label |-> "a", Program |-> "/bin/p"])>>),
         Dictionary(<<Entry("SubmitJob", [Program |-> "/bin/p"])>>),
         Dictionary(<<Entry("NoSuchCommand", "a"), Entry("StartJob", "a")>>),
         Dictionary(<<Entry("StopJob", "a"), Entry("RemoveJob", "a")>>)>>

\* ipc_callback: EVFILT_READ, a message has arrived on the connection
Request ==
    /\ Waiting
    /\ \E c \in connections : \E n \in 1..Len(Requests) :
        \E e \in Env(FALSE, FALSE) : \E link \in {"intact", "cleared"} :
         /\ Talks(c)
         /\ link = "cleared" => Requests[n].type = "dictionary"
         /\ Handled(Sent(<<Requests[n]>>,
                         Run("Request", "", c.j, e,
                             ipc_readmsg(World, Requests[n], c, e, link),
                             ipc_readmsg(World, Requests[n], c, Plain(e), link))))

\* listen_callback: accept() on the control socket, ipc_open(cfd, NULL)
Accept ==
    /\ Waiting
    /\ Handled(Once("Accept", "", 0,
                    Reply(ipc_open(opened(World, FreeConnFd(World)),
                                   FreeConnFd(World), 0, 0), <<>>)))

Shutdown ==
    /\ Waiting
    /\ Handled(Once("Shutdown", "", 0, ShutdownCmd(World)))

\* signal_callback: SIGTERM
SigTerm ==
    /\ Waiting
    /\ Handled(Once("SIGTERM", "", 0, Reply(do_shutdown(World), <<>>)))

\* ipc_callback: the peer closed its end, recv fails, ipc_close
IpcClosed ==
    /\ Waiting
    /\ \E c \in connections :
         /\ ~c.peer_open
         /\ Handled(Once("IpcClosed", "", c.j, Reply(ipc_close(World, c), <<>>)))

Zombie(pid) == procs[pid] \in {"exited", "execfailed"}

\* waitpid(kev->ident, &status, 0)
simple_zombie_reaper(w, pid) == [w EXCEPT !.procs[pid] = "free"]

Deliver(w, k) == IF k.oneshot THEN [w EXCEPT !.kq = @ \ {k}] ELSE w

Kev(filter, ident, data, invalid) ==
    [filter |-> filter, ident |-> ident, data |-> data, invalid |-> invalid]

\* a knote of a job that is delivered to job_callback
ToJob(k, filter) ==
    k.filter = filter /\ k.udata.cb = "job" /\ Has(World, k.udata.obj)

\* of an EVFILT_VNODE event the descriptor and the result of dir_has_files
\* are recorded, of an EVFILT_TIMER event the timer
Probed(kev, e, run) ==
    IF kev.filter = "VNODE" THEN [run EXCEPT !.arg = <<kev.ident, e.dir>>]
    ELSE IF kev.filter = "TIMER" THEN [run EXCEPT !.arg = <<kev.ident>>]
    ELSE run

JobEvent(op, k, kev, e) ==
    Handled(Probed(kev, e,
            Run(op, Job(World, k.udata.obj).label, k.udata.obj, e,
                Reply(job_callback(Deliver(World, k), k.udata.obj, kev, e), <<>>),
                Reply(job_callback(Deliver(World, k), k.udata.obj, kev, Plain(e)), <<>>))))

\* EVFILT_PROC, NOTE_EXIT: to the job's job_callback
ProcExit ==
    /\ Waiting
    /\ \E k \in kq :
         /\ ToJob(k, "PROC") /\ Zombie(k.ident)
         /\ \E e \in Env(TRUE, Probes(Job(World, k.udata.obj).ldj)) :
              /\ e.status = ExitStatus(World, k.ident, e)
              /\ JobEvent("ProcExit", k, Kev("PROC", k.ident, 0, FALSE), e)

\* EVFILT_PROC, NOTE_EXIT: to simple_zombie_reaper
ZombieReaped ==
    /\ Waiting
    /\ \E k \in kq :
         /\ k.filter = "PROC" /\ Zombie(k.ident)
         /\ k.udata.cb = "reaper"
         /\ Handled(Once("ZombieReaped", "", 0,
                         Reply(simple_zombie_reaper(Deliver(World, k), k.ident), <<>>)))

IsExecFd(fd) == \E p \in Pids : fd = ExecFd(p)
PidOfExecFd(fd) == CHOOSE p \in Pids : fd = ExecFd(p)

\* EVFILT_READ on the exec pipe: the child wrote its errno, or its end closed
ExecPipe ==
    /\ Waiting
    /\ \E k \in kq :
         /\ ToJob(k, "READ") /\ IsExecFd(k.ident)
         /\ procs[PidOfExecFd(k.ident)] \in {"running", "exited", "execfailed"}
         /\ LET failed == procs[PidOfExecFd(k.ident)] = "execfailed"
            IN  JobEvent("ExecPipe", k,
                         Kev("READ", k.ident, IF failed THEN 4 ELSE 0, FALSE), NoEnv)

IsSockFd(fd) == fd \in SockFds

\* EVFILT_READ on a listening descriptor of a job: a client connected
SocketReadable ==
    /\ Waiting
    /\ \E k \in kq :
         /\ ToJob(k, "READ") /\ IsSockFd(k.ident)
         /\ \E e \in Env(FALSE, FALSE) :
              JobEvent("SocketReadable", k, Kev("READ", k.ident, 1, FALSE), e)

\* a timer delivered whether or not the asynckq knote is enabled
TimerFired_mainkq ==
    /\ Waiting
    /\ \E k \in kq :
         /\ ToJob(k, "TIMER")
         /\ \E e \in Env(FALSE, FALSE) :
              JobEvent("TimerFired", k, Kev("TIMER", k.ident, 0, FALSE), e)

\* async_callback: one timer of asynckq fires
TimerFired ==
    /\ Waiting /\ async_enabled
    /\ \E k \in kq :
         /\ ToJob(k, "TIMER")
         /\ \E e \in Env(FALSE, FALSE) :
              JobEvent("TimerFired", k, Kev("TIMER", k.ident, 0, FALSE), e)

\* async_callback: one vnode knote of asynckq fires
VnodeChanged ==
    /\ Waiting /\ async_enabled
    /\ \E k \in kq :
         /\ ToJob(k, "VNODE")
         /\ \E e \in Env(FALSE, TRUE) :
            \E invalid \in {FALSE, k.ident \in SeqRange(Job(World, k.udata.obj).vnodes)} :
              JobEvent(IF invalid THEN "VnodeInvalid" ELSE "VnodeChanged", k,
                       Kev("VNODE", k.ident, 0, invalid), e)

----------------------------------------------------------------------------
(* The children and main()'s exits *)

Quiet == last' = Nothing /\ UNCHANGED <<handshake, ctl, session, scope>>

\* the peer of a connection is gone: its end of the socket pair is closed
HangUp(p) ==
    {IF c.peer = p /\ c.peer_open
     THEN [c EXCEPT !.peer_open = FALSE, !.peer = 0] ELSE c
     : c \in connections}

\* a client closes its end of its connection
ClientClose ==
    /\ alive
    /\ \E c \in connections :
         /\ c.j = 0 /\ c.peer_open
         /\ connections' = (connections \ {c}) \cup {[c EXCEPT !.peer_open = FALSE]}
    /\ Quiet
    /\ UNCHANGED <<jobs, procs, kq, fdtable, async_enabled, batch_disabler_count,
                   total_children, shutdown_in_progress, pid1, alive>>

\* job_start_child: execv() replaces the image (the child's end of the exec
\* pipe is close-on-exec) or fails, and then the errno is written to the pipe
\* and the child calls _exit(EXIT_FAILURE)
ChildExec ==
    /\ alive
    /\ \E p \in Pids : \E ok \in BOOLEAN :
         /\ procs[p] = "released"
         /\ procs' = [procs EXCEPT ![p] = IF ok THEN "running" ELSE "execfailed"]
         /\ connections' = IF ok THEN connections ELSE HangUp(p)
    /\ Quiet
    /\ UNCHANGED <<jobs, kq, fdtable, async_enabled, batch_disabler_count, total_children,
                   shutdown_in_progress,
                   pid1, alive>>

\* a child that has exec'd exits or is killed
ChildExit ==
    /\ alive
    /\ \E p \in Pids :
         /\ procs[p] = "running"
         /\ procs' = [procs EXCEPT ![p] = "exited"]
         /\ connections' = HangUp(p)
    /\ Quiet
    /\ UNCHANGED <<jobs, kq, fdtable, async_enabled, batch_disabler_count, total_children,
                   shutdown_in_progress,
                   pid1, alive>>

\* main(): shutdown_in_progress && total_children == 0, with jobs loaded
MainExit ==
    /\ alive /\ ExitNow
    /\ alive' = FALSE
    /\ Quiet
    /\ UNCHANGED <<jobs, connections, procs, kq, fdtable, async_enabled,
                   batch_disabler_count, total_children,
                   shutdown_in_progress, pid1>>

\* main(): "launched on demand", no job loaded and no event for 30 seconds
IdleExit ==
    /\ alive /\ ~pid1 /\ jobs = <<>>
    /\ alive' = FALSE
    /\ Quiet
    /\ UNCHANGED <<jobs, connections, procs, kq, fdtable, async_enabled,
                   batch_disabler_count, total_children,
                   shutdown_in_progress, pid1>>

----------------------------------------------------------------------------
(* main() up to the loop: with a command on the command line the firstborn *)
(* is conceived by load_job and started.                                   *)

Empty == [jobs |-> <<>>, connections |-> {}, procs |-> [p \in Pids |-> "free"],
          kq |-> {}, fdtable |-> {}, async_enabled |-> TRUE,
          batch_disabler_count |-> 0, total_children |-> 0,
          shutdown_in_progress |-> FALSE, sent |-> {}]

TAILQ_FIRST(w) == w.jobs[1].id

\* TAILQ_FIRST(&jobs)->firstborn = true
firstborn(w) == Set(w, TAILQ_FIRST(w), "firstborn", TRUE)

conceive_firstborn(w, e) ==
    firstborn(load_job(w, [ProgramArguments |-> "cmd", Label |-> FirstbornLabel], e).w)

\* job_start(TAILQ_FIRST(&jobs))
job_start_first(w, e) == job_start(w, TAILQ_FIRST(w), e)

Boot(argv0, e) ==
    IF argv0 THEN job_start_first(conceive_firstborn(Empty, e), e) ELSE Empty

\* the supervisor after main() has reached its loop, for the limits given
Start(limits) ==
    /\ scope = limits
    /\ pid1 \in limits.pid1
    /\ alive = TRUE
    /\ last = Nothing
    /\ handshake = NoStart
    /\ ctl = NoCtl
    /\ session = NoSession
    /\ \E argv0 \in BOOLEAN : \E forkok \in {TRUE, ~argv0} :
        \E w \in {Boot(argv0, [NoEnv EXCEPT !.forkok = forkok])} :
             /\ jobs = w.jobs
             /\ connections = w.connections
             /\ procs = w.procs
             /\ kq = w.kq
             /\ fdtable = w.fdtable
             /\ async_enabled = w.async_enabled
             /\ batch_disabler_count = w.batch_disabler_count
             /\ total_children = w.total_children
             /\ shutdown_in_progress = w.shutdown_in_progress

Commands == {"SubmitJob", "SubmitJobs", "StartJob", "StopJob", "RemoveJob",
             "CheckIn", "Shutdown", "BatchControl", "BatchQuery"}

Events == {"ProcExit", "ExecPipe", "SocketReadable", "TimerFired",
           "VnodeChanged", "VnodeInvalid"}

Triggers == {"StartJob", "SocketReadable", "TimerFired", "VnodeChanged",
             "VnodeInvalid"}

Plainly(keys) == {k \in Kinds : DOMAIN k \subseteq keys \cup {"Program", "ProgramArguments"}}

\* one job of any kind and MaxProcs children, the supervisor not PID 1; the
\* triggers and RemoveJob are recorded
Whole == [cap |-> MaxJobs - 1, conns |-> MaxConns, nproc |-> MaxProcs, depth |-> MaxFailures,
          kinds |-> Kinds, labels |-> {"a"}, pid1 |-> {FALSE},
          watch |-> Triggers \cup {"RemoveJob"}]

\* the wide scope: a registry of MaxJobs entries, one child at a time, jobs
\* that only StartJob starts, the supervisor not PID 1; the commands are
\* recorded
Wide == [cap |-> MaxJobs, conns |-> MaxConns, nproc |-> MaxProcs - 1, depth |-> MaxFailures,
         kinds |-> Plainly({}), labels |-> Labels, pid1 |-> {FALSE},
         watch |-> Commands]

\* the deep scope: one job without triggers and one child under PID 1, the
\* whole crash loop; the events are recorded
Deep == [cap |-> MaxJobs - 1, conns |-> MaxConns, nproc |-> MaxProcs - 1,
         depth |-> LAUNCHD_FAILED_EXITS_THRESHOLD + 1,
         kinds |-> Plainly({"OnDemand", "ServiceIPC"}), labels |-> {"a"},
         pid1 |-> {TRUE}, watch |-> Events]

\* the session: the firstborn and one job of its session, each with a child,
\* the supervisor not PID 1; the exits are recorded
Session == [cap |-> MaxJobs, conns |-> MaxConns, nproc |-> MaxProcs, depth |-> MaxFailures,
            kinds |-> Plainly({"OnDemand"}), labels |-> {"a"}, pid1 |-> {FALSE},
            watch |-> {"ProcExit"}]

\* the kinds with a connection of the job's own, and those with a TimeOut
\* of their own too
Served == Plainly({"OnDemand", "ServiceIPC"}) \ Plainly({"OnDemand"})
Timed == {k @@ [TimeOut |-> 2 * LAUNCHD_MIN_JOB_RUN_TIME] : k \in Served}

\* the control plane: one job, with a connection of its own or without, one
\* child, and clients, on MaxConns + 1 connections in all; the supervisor
\* not PID 1; CheckIn, the batch commands and the close of a connection are
\* recorded
Ctl == [cap |-> MaxJobs - 1, conns |-> MaxConns + 1, nproc |-> MaxProcs - 1,
        depth |-> MaxFailures - 1,
        kinds |-> Plainly({}) \cup Served \cup Timed,
        labels |-> {"a"}, pid1 |-> {FALSE},
        watch |-> {"CheckIn", "BatchControl", "BatchQuery", "IpcClosed"}]

\* the messages: one job, with a socket or without, one child and one client;
\* the supervisor not PID 1; SubmitJob and the messages are recorded
Msg == [cap |-> MaxJobs - 1, conns |-> MaxConns, nproc |-> MaxProcs - 1,
        depth |-> MaxFailures - 1,
        kinds |-> Plainly({"Sockets", "OnDemand"}),
        labels |-> {"a"}, pid1 |-> {FALSE},
        watch |-> {"SubmitJob", "Request"}]

\* batching: one job with a socket, timers or paths or one kept alive, one
\* child, and clients on MaxConns + 1 connections; the supervisor not PID 1;
\* the events, the signal and the accept are recorded
Batch == [cap |-> MaxJobs - 1, conns |-> MaxConns + 1, nproc |-> MaxProcs - 1,
          depth |-> MaxFailures,
          kinds |-> Kinds \ (Plainly({}) \cup Served),
          labels |-> {"a"}, pid1 |-> {FALSE},
          watch |-> Events \cup {"SIGTERM", "Accept"}]

Init == Start(Whole)

InitWide == Start(Wide)

InitDeep == Start(Deep)

InitSession == Start(Session)

InitCtl == Start(Ctl)

InitBatch == Start(Batch)

InitMsg == Start(Msg)

Next ==
    \/ SubmitJob \/ SubmitJobs \/ StartJob \/ StopJob \/ RemoveJob
    \/ CheckIn \/ Shutdown \/ SigTerm \/ IpcClosed
    \/ ProcExit \/ ZombieReaped \/ ExecPipe \/ SocketReadable
    \/ TimerFired \/ VnodeChanged
    \/ ChildExec \/ ChildExit \/ MainExit \/ IdleExit

\* no job has a socket, a path, a timer or a connection
NextWide ==
    \/ SubmitJob \/ SubmitJobs \/ StartJob \/ StopJob \/ RemoveJob
    \/ Shutdown \/ SigTerm
    \/ ProcExit \/ ZombieReaped \/ ExecPipe
    \/ ChildExec \/ ChildExit \/ MainExit \/ IdleExit

\* no job has a socket or a path, and PID 1 does not exit
NextDeep ==
    \/ SubmitJob \/ SubmitJobs \/ StartJob \/ StopJob \/ RemoveJob
    \/ CheckIn \/ Shutdown \/ SigTerm \/ IpcClosed
    \/ ProcExit \/ ZombieReaped \/ ExecPipe \/ TimerFired
    \/ ChildExec \/ ChildExit

\* no job has a socket, a path or a connection
NextSession ==
    \/ SubmitJob \/ StartJob \/ StopJob \/ RemoveJob \/ SigTerm
    \/ ProcExit \/ ZombieReaped \/ ExecPipe \/ TimerFired
    \/ ChildExec \/ ChildExit \/ MainExit \/ IdleExit

\* no job has a socket, a path or a timer of its description, and no throttle
\* timer fires
NextCtl ==
    \/ SubmitJob \/ StartJob \/ RemoveJob
    \/ CheckIn \/ BatchControl \/ BatchQuery \/ Shutdown
    \/ Accept \/ IpcClosed
    \/ ProcExit \/ ZombieReaped \/ ExecPipe
    \/ ChildExec \/ ChildExit \/ ClientClose \/ MainExit \/ IdleExit

NextBatch ==
    \/ SubmitJob \/ RemoveJob
    \/ BatchControl \/ BatchQuery \/ SigTerm
    \/ Accept \/ IpcClosed
    \/ ProcExit \/ ZombieReaped \/ ExecPipe \/ SocketReadable
    \/ TimerFired \/ VnodeChanged
    \/ ChildExec \/ ChildExit \/ ClientClose \/ MainExit \/ IdleExit

\* no job has a path, a timer of its description or a connection, and no
\* throttle timer fires
NextMsg ==
    \/ SubmitJob \/ Request \/ Accept \/ IpcClosed
    \/ ProcExit \/ ZombieReaped \/ ExecPipe \/ SocketReadable
    \/ ChildExec \/ ChildExit \/ ClientClose \/ MainExit \/ IdleExit

Spec == Init /\ [][Next]_vars

SpecWide == InitWide /\ [][NextWide]_vars

SpecDeep == InitDeep /\ [][NextDeep]_vars

SpecSession == InitSession /\ [][NextSession]_vars

SpecCtl == InitCtl /\ [][NextCtl]_vars

SpecBatch == InitBatch /\ [][NextBatch]_vars

SpecMsg == InitMsg /\ [][NextMsg]_vars

----------------------------------------------------------------------------
(* The registry and the commands (SpecWide)                                *)

LabelsOf(js) == {js[i].label : i \in 1..Len(js)}

\* C1: in every reachable state the registry holds at most one entry per
\* label, whatever SubmitJob (single or array), RemoveJob, the creation of
\* the firstborn and the removals at a child's exit have done.
C1_OneEntryPerLabel ==
    \A i, k \in 1..Len(jobs) : jobs[i].label = jobs[k].label => i = k

\* an array whose second description repeats a label has been answered, and
\* the registry is full
C1_Witness ==
    /\ last.op = "SubmitJobs"
    /\ last.resp = <<E0, "EEXIST">>
    /\ Len(jobs) = MaxJobs

\* the errno the claim gives a description, for the labels in the registry:
\* EEXIST for a label in use, EINVAL for no label or no program (a label in
\* use is reported first)
C2_Errno(labels, pload) ==
    IF "Label" \notin DOMAIN pload THEN "EINVAL"
    ELSE IF pload["Label"] \in labels THEN "EEXIST"
    ELSE IF "Program" \notin DOMAIN pload /\ "ProgramArguments" \notin DOMAIN pload
    THEN "EINVAL"
    ELSE E0

\* the labels in the registry once pload has been answered
C2_After(labels, pload) ==
    IF C2_Errno(labels, pload) = E0 THEN labels \cup {pload["Label"]} ELSE labels

\* C2: SubmitJob of a description whose Label is in the registry returns
\* EEXIST, of one with no Label or with neither Program nor ProgramArguments
\* EINVAL, and a refused description changes nothing: not the registry, not
\* a knote, not a process.  In an array each description is answered so,
\* against the registry the descriptions before it have left.
C2_SubmitErrors ==
    [][last'.op \in {"SubmitJob", "SubmitJobs"} =>
        LET first == last'.arg[1]
            alone == SubmitJobCmd(World, <<first>>, [NoEnv EXCEPT !.forkok = last'.forkok])
        IN  /\ last'.resp[1] = C2_Errno(LabelsOf(jobs), first)
            /\ Len(last'.arg) = 1 /\ last'.resp[1] # E0 => World' = World
            /\ Len(last'.arg) = 2 =>
                 /\ last'.resp[2] = C2_Errno(C2_After(LabelsOf(jobs), first), last'.arg[2])
                 /\ last'.resp[2] # E0 =>
                      World' = IF last'.resp[1] # E0 THEN World ELSE alone.w
    ]_vars

\* a description was refused with EEXIST while a job was running
C2_Witness ==
    /\ last.op = "SubmitJob"
    /\ last.resp = <<"EEXIST">>
    /\ \E i \in 1..Len(jobs) : jobs[i].p # 0

\* C3: StartJob, StopJob and RemoveJob return 0 when the label is in the
\* registry and ESRCH when it is not, and on ESRCH nothing changes: no job,
\* no knote, no process.
C3_LabelCommands ==
    [][last'.op \in {"StartJob", "StopJob", "RemoveJob"} =>
        /\ last'.resp = <<IF last'.label \in LabelsOf(jobs) THEN E0 ELSE "ESRCH">>
        /\ last'.resp = <<"ESRCH">> => World' = World
    ]_vars

\* RemoveJob of a label that is not loaded was answered ESRCH, with another
\* job loaded and running
C3_Witness ==
    /\ last.op = "RemoveJob"
    /\ last.resp = <<"ESRCH">>
    /\ \E i \in 1..Len(jobs) : jobs[i].p # 0

----------------------------------------------------------------------------
(* A job and its child (Spec)                                              *)

\* the children a job supervises: those whose exit is delivered to it
Supervised(id) == {k \in kq : k.filter = "PROC" /\ k.udata = JobUdata(id)}

\* C4: a job never has two supervised processes alive at once: starting a
\* job whose pid is not zero does nothing, so a trigger (socket, path,
\* queue directory, interval, calendar, throttle timer) or a StartJob that
\* arrives while the job runs forks no process and leaves the job its pid.
C4_NoSecondCopy ==
    /\ [](\A i \in 1..Len(jobs) : Cardinality(Supervised(jobs[i].id)) <= 1)
    /\ [][last'.op \in Triggers =>
            \A i \in 1..Len(jobs) :
                (/\ jobs[i].p # 0
                 /\ \/ jobs[i].id = last'.id
                    \/ last'.op = "StartJob" /\ jobs[i].label = last'.label)
                => /\ procs' = procs
                   /\ Has(World', jobs[i].id)
                   /\ Job(World', jobs[i].id).p = jobs[i].p
       ]_vars

\* a timer of a job fired while its child was running
C4_Witness ==
    /\ last.op = "TimerFired"
    /\ last.was.p # 0
    /\ procs[last.was.p] = "running"

----------------------------------------------------------------------------
(* The exit of a child (SpecDeep).  last.was is the jobcb as the handler   *)
(* found it.                                                               *)

OnDemand(j) == job_get_bool(j.ldj, "OnDemand")

BadStatus(status) == status \notin {"exit0", "SIGKILL", "SIGTERM"}

\* the one-shot timer job_callback arms for a throttled job
ThrottleTimer(id) ==
    [ident |-> id, filter |-> "TIMER", oneshot |-> TRUE, udata |-> JobUdata(id)]

\* C6: after a process-exit event has been handled, every job still in the
\* registry has failed_exits <= LAUNCHD_FAILED_EXITS_THRESHOLD.
C6_FailedExitsBounded ==
    last.op = "ProcExit" =>
        \A i \in 1..Len(jobs) : jobs[i].failed_exits <= LAUNCHD_FAILED_EXITS_THRESHOLD

\* C7: a job submitted with OnDemand false whose child exits ten times in a
\* row, each time after less than LAUNCHD_MIN_JOB_RUN_TIME, is removed at
\* the tenth exit, and StartJob for its label then returns ESRCH: each such
\* exit of a job that stays adds one to failed_exits, which load_job set to
\* zero, and the exit that brings it to the threshold removes the job.
C7_RemovedAtTenthQuickExit ==
    (/\ last.op = "ProcExit"
     /\ ~OnDemand(last.was)
     /\ last.td < LAUNCHD_MIN_JOB_RUN_TIME)
    => IF last.was.failed_exits + 1 >= LAUNCHD_FAILED_EXITS_THRESHOLD
       THEN /\ ~Has(World, last.id)
            /\ StartJobCmd(World, last.label, NoEnv).resp = <<"ESRCH">>
       ELSE Has(World, last.id) =>
                Job(World, last.id).failed_exits = last.was.failed_exits + 1

\* the tenth quick exit in a row has removed the job
C7_Witness ==
    /\ last.op = "ProcExit"
    /\ ~OnDemand(last.was)
    /\ last.td < LAUNCHD_MIN_JOB_RUN_TIME
    /\ last.was.failed_exits = LAUNCHD_FAILED_EXITS_THRESHOLD - 1
    /\ jobs = <<>>

\* C8 as stated: failed_exits never decreases except at the reap of a run
\* that lasted longer than LAUNCHD_REWARD_JOB_RUN_TIME, and after the reap
\* of such a run it is 0.
C8_AsStated ==
    (last.op = "ProcExit" /\ Has(World, last.id)) =>
        /\ Job(World, last.id).failed_exits < last.was.failed_exits
                => last.td > LAUNCHD_REWARD_JOB_RUN_TIME
        /\ last.td > LAUNCHD_REWARD_JOB_RUN_TIME
                => Job(World, last.id).failed_exits = 0

\* C8, amended: failed_exits of a job never decreases except at the reap of
\* a run of a job with OnDemand false that lasted at least
\* LAUNCHD_REWARD_JOB_RUN_TIME; after that reap it is 0 when the exit was
\* clean and 1 when it was bad.
C8_ForgivenAtReward ==
    [][\A i \in 1..Len(jobs) :
          Has(World', jobs[i].id) =>
              IF /\ last'.op = "ProcExit" /\ last'.id = jobs[i].id
                 /\ ~OnDemand(jobs[i])
                 /\ last'.td >= LAUNCHD_REWARD_JOB_RUN_TIME
              THEN Job(World', jobs[i].id).failed_exits =
                        IF BadStatus(last'.status) THEN 1 ELSE 0
              ELSE Job(World', jobs[i].id).failed_exits >= jobs[i].failed_exits
    ]_vars

\* a job with failures on its count ran for the reward time, exited cleanly
\* and was forgiven
C8_Witness ==
    /\ last.op = "ProcExit"
    /\ ~OnDemand(last.was)
    /\ last.td >= LAUNCHD_REWARD_JOB_RUN_TIME
    /\ last.was.failed_exits > 0
    /\ Has(World, last.id)
    /\ Job(World, last.id).failed_exits = 0

\* C9: after the exit of a job's child is reaped the job is restarted, at
\* once or through the throttle timer, if and only if it is not the
\* firstborn, ServiceIPC is not required or the job had checked in,
\* failed_exits is below the threshold, and the job is not OnDemand while
\* shutdown is not in progress.  Stated for the exits at which no throttle
\* timer of an earlier exit is pending, so that a throttle timer in the
\* queue after the handler is one the handler armed.
C9_RestartedIffFit ==
    [][(last'.op = "ProcExit" /\ ThrottleTimer(last'.id) \notin kq) =>
        ((/\ Has(World', last'.id)
          /\ \/ Job(World', last'.id).p # 0
             \/ ThrottleTimer(last'.id) \in kq')
         <=>
         (/\ Has(World', last'.id)
          /\ ~last'.was.firstborn
          /\ ~job_get_bool(last'.was.ldj, "ServiceIPC") \/ last'.was.checkedin
          /\ Job(World', last'.id).failed_exits < LAUNCHD_FAILED_EXITS_THRESHOLD
          /\ ~OnDemand(last'.was)
          /\ ~shutdown_in_progress'))
    ]_vars

\* the throttled exit of C10: a job with OnDemand false that ran less than
\* LAUNCHD_MIN_JOB_RUN_TIME and passes the fitness test
C10_Throttled ==
    /\ last.op = "ProcExit"
    /\ ~OnDemand(last.was)
    /\ last.td < LAUNCHD_MIN_JOB_RUN_TIME
    /\ ~job_get_bool(last.was.ldj, "ServiceIPC") \/ last.was.checkedin
    /\ last.was.failed_exits + 1 < LAUNCHD_FAILED_EXITS_THRESHOLD
    /\ ~shutdown_in_progress

\* C10: at a throttled exit no process is started inside the exit handler
\* and a one-shot timer is armed instead, and the job is started when that
\* timer fires if it is not running already.
C10_DeferredRestart ==
    /\ C10_Throttled =>
           /\ Has(World, last.id)
           /\ Job(World, last.id).p = 0
           /\ procs[last.was.p] = "free"
           /\ ThrottleTimer(last.id) \in kq
    /\ (last.op = "TimerFired" /\ last.was.p = 0) =>
           /\ Has(World, last.id)
           /\ Job(World, last.id).p # 0

----------------------------------------------------------------------------
(* The firstborn's exit (SpecSession)                                      *)

\* the children of the jobs of the registry
Running == {jobs[i].p : i \in {k \in 1..Len(jobs) : jobs[k].p # 0}}

\* C11: when the firstborn's child exits, shutdown begins:
\* shutdown_in_progress is set and SIGTERM is sent to the child of every job
\* that has one; and the exit handler does not start the firstborn again: it
\* has no child after the handler and no process was forked.
C11_FirstbornShutdown ==
    (last.op = "ProcExit" /\ last.was.firstborn) =>
        /\ shutdown_in_progress
        /\ last.sent = Running
        /\ Has(World, last.id)
        /\ Job(World, last.id).p = 0
        /\ procs[last.was.p] = "free"
        /\ ThrottleTimer(last.id) \notin kq

\* the firstborn exited while another job's child was running
C11_Witness ==
    /\ last.op = "ProcExit" /\ last.was.firstborn
    /\ last.sent # {}
    /\ \E p \in last.sent : procs[p] = "running"

----------------------------------------------------------------------------
(* The removal of a job (Spec)                                             *)

\* the knotes that deliver to the job_callback of the job at address id
KnotesOf(q, id) == {k \in q : k.udata = JobUdata(id)}

\* C12: after RemoveJob no socket, vnode, interval, calendar, throttle,
\* exec-pipe or process-exit event is delivered to the removed job's
\* handler: the step that takes a job out of the registry (RemoveJob, and
\* the removals of the exit and exec-pipe handlers) leaves no knote that
\* points to it, and a knote never points to a job outside the registry.
C12_NoEventAfterRemoval ==
    /\ [](\A k \in kq : k.udata.cb = "job" => Has(World, k.udata.obj))
    /\ [][\A i \in 1..Len(jobs) :
             ~Has(World', jobs[i].id) => KnotesOf(kq', jobs[i].id) = {}]_vars

\* RemoveJob took out a job whose child runs: the process-exit knote now
\* points to the zombie reaper
C12_Witness ==
    /\ last.op = "RemoveJob" /\ last.resp = <<E0>>
    /\ jobs = <<>>
    /\ \E k \in kq : k.filter = "PROC" /\ k.udata = ReaperUdata

----------------------------------------------------------------------------
(* The descriptors (Spec)                                                  *)

Positive(fds) == {fds[i] : i \in {k \in 1..Len(fds) : fds[k] > 0}}

\* the descriptors a job holds: those of its description, its watch paths
\* and queue directories, and the parent's end of the exec pipe
HeldBy(j) ==
    Positive(MsgFds(j.ldj)) \cup Positive(j.vnodes) \cup Positive(j.qdirs)
        \cup Positive(<<j.execfd>>)

\* the descriptors that have an owner: a job of the registry or a connection
Owned ==
    UNION {HeldBy(jobs[i]) : i \in 1..Len(jobs)} \cup {c.fd : c \in connections}

----------------------------------------------------------------------------
(* Batch control (SpecCtl)                                                 *)

Disablers == {c \in connections : c.disabled_batch}

\* C14: in every reachable state batch_disabler_count is the number of open
\* connections whose disabled_batch flag is set (a second BatchControl(false)
\* from a connection does not count again, BatchControl(true) from a
\* connection that holds no disable changes nothing, ipc_close releases the
\* connection's disable), and the asynckq knote is disabled whenever the
\* count is above zero.
C14_DisablersCounted ==
    /\ batch_disabler_count = Cardinality(Disablers)
    /\ batch_disabler_count > 0 => ~async_enabled

\* C14 witness: a connection has been closed while the other connection
\* holds a disable: the count is one and the asynckq knote is disabled.
C14_Witness ==
    /\ last.op = "IpcClosed"
    /\ batch_disabler_count = 1
    /\ Cardinality(connections) = 1
    /\ ~async_enabled

----------------------------------------------------------------------------
(* Batching and the two queues (SpecBatch)                                 *)

AsyncEvents == {"TimerFired", "VnodeChanged", "VnodeInvalid"}

\* a request is pending on a connection
PendingRequest == \E c \in connections : Talks(c)

\* C15: while batching is disabled (batch_disabler_count above zero) no
\* handler of an interval timer, a calendar alarm, a throttle timer or a
\* vnode knote runs, whereas the events of mainkq are still handled: SIGTERM,
\* an accept on the control socket and a request on a connection are
\* enabled (the witness has the exit of a child handled).
C15_OnlyAsyncHeld ==
    /\ [][batch_disabler_count > 0 => last'.op \notin AsyncEvents]_vars
    /\ []((batch_disabler_count > 0 /\ Waiting) =>
            /\ PendingRequest => ENABLED BatchQuery
            /\ Cardinality(connections) < scope.conns => ENABLED Accept
            /\ ENABLED SigTerm)

\* C15 witness: the exit of the job's child has been handled while a client
\* holds a disable and a timer of the job is pending on asynckq.
C15_Witness ==
    /\ last.op = "ProcExit"
    /\ batch_disabler_count > 0
    /\ \E k \in kq : k.filter = "TIMER" /\ k.udata.cb = "job"
    /\ \E c \in connections : c.disabled_batch /\ c.j = 0

----------------------------------------------------------------------------
(* CheckIn (SpecCtl)                                                       *)

\* the job a connection was opened for by job_start: the one whose child is
\* the connection's peer
BoundTo(c) == {i \in 1..Len(jobs) : jobs[i].p = c.peer}

\* C16: CheckIn on a connection that is not bound to a job is answered
\* EACCES and changes no job; on a connection bound to job J it is answered
\* with a copy of J's description, with TimeOut added when the description
\* has none, and sets checkedin on J and changes no other job.
C16_CheckIn ==
    [][last'.op = "CheckIn" =>
        IF last'.arg[1].j = 0
        THEN last'.resp = <<"EACCES">> /\ jobs' = jobs
        ELSE \E i \in BoundTo(last'.arg[1]) :
                /\ last'.resp = <<WithTimeOut(jobs[i].ldj)>>
                /\ jobs' = [jobs EXCEPT ![i].checkedin = TRUE]
    ]_vars

----------------------------------------------------------------------------
(* The dispatcher (SpecMsg)                                                *)

Recognised == {"StartJob", "StopJob", "RemoveJob", "SubmitJob", "CheckIn",
               "Shutdown", "GetJobs", "GetJob", "GetJobWithHandles",
               "BatchControl", "BatchQuery"}

\* the commands of a message that the supervisor knows, in the order sent
RECURSIVE Known(_)
Known(entries) ==
    IF entries = <<>> THEN <<>>
    ELSE (IF Head(entries).key \in Recognised THEN <<Head(entries)>> ELSE <<>>)
            \o Known(Tail(entries))

Commanded(msg) ==
    IF msg.type = "dictionary" THEN Known(msg.entries)
    ELSE IF msg.type = "string" THEN Known(<<Entry(msg.string, <<>>)>>)
    ELSE <<>>

\* v is a result or an errno of the command, in the registry js
ResultOf(cmd, v, js, client) ==
    CASE cmd.key \in {"StartJob", "StopJob", "RemoveJob"} -> v \in {E0, "ESRCH"}
      [] cmd.key = "SubmitJob" -> v \in {E0, "EEXIST", "EINVAL"}
      [] cmd.key \in {"Shutdown", "BatchControl"} -> v = E0
      [] cmd.key = "BatchQuery" -> v \in BOOLEAN
      [] cmd.key = "CheckIn" -> client => v = "EACCES"
      [] cmd.key = "GetJobs" -> DOMAIN v = LabelsOf(js)
      [] cmd.key \in {"GetJob", "GetJobWithHandles"} ->
            IF cmd.data \in LabelsOf(js) THEN v["Label"] = cmd.data ELSE v = "ESRCH"

Defaulted(J) ==
    [k \in DOMAIN J \cup {"OnDemand"} |-> IF k \in DOMAIN J THEN J[k] ELSE TRUE]

NoFds(d) == [k \in DOMAIN d |-> IF k = "Sockets" THEN -1 ELSE d[k]]

GetJobOf(msg) ==
    IF Commanded(msg) # <<>> /\ Commanded(msg)[1].key = "GetJob"
    THEN {Commanded(msg)[1].data} ELSE {}

----------------------------------------------------------------------------
(* Calendar alarms: cronemu.  A time_t counts minutes here (cronemu sets   *)
(* tm_sec to zero, and a now with seconds to it lies before the minute     *)
(* after its own), from 00:00 of January 1st of EpochYear, a Sunday.  The  *)
(* zone has no daylight saving time.  A struct tm has tm_mon from 0 and    *)
(* tm_wday from 0, Sunday.                                                 *)

EpochYear == 2023

IsLeap(y) == (y % 4 = 0 /\ y % 100 # 0) \/ y % 400 = 0

DaysIn(y, m) ==
    IF m = 1 THEN (IF IsLeap(y) THEN 29 ELSE 28)
    ELSE IF m \in {3, 5, 8, 10} THEN 30 ELSE 31

RECURSIVE DaysBeforeYear(_)
DaysBeforeYear(y) ==
    IF y <= EpochYear THEN 0
    ELSE DaysBeforeYear(y - 1) + (IF IsLeap(y - 1) THEN 366 ELSE 365)

RECURSIVE DaysBeforeMonth(_, _)
DaysBeforeMonth(y, m) ==
    IF m = 0 THEN 0 ELSE DaysBeforeMonth(y, m - 1) + DaysIn(y, m - 1)

DayNumber(tm) ==
    DaysBeforeYear(tm.tm_year) + DaysBeforeMonth(tm.tm_year, tm.tm_mon)
        + tm.tm_mday - 1

\* mktime() brings the fields into their ranges, carrying upwards
CarryMin(tm) ==
    [tm EXCEPT !.tm_hour = @ + tm.tm_min \div 60, !.tm_min = tm.tm_min % 60]

CarryHour(tm) ==
    [tm EXCEPT !.tm_mday = @ + tm.tm_hour \div 24, !.tm_hour = tm.tm_hour % 24]

CarryMon(tm) ==
    [tm EXCEPT !.tm_year = @ + tm.tm_mon \div 12, !.tm_mon = tm.tm_mon % 12]

RECURSIVE CarryDay(_)
CarryDay(tm) ==
    IF tm.tm_mday <= DaysIn(tm.tm_year, tm.tm_mon) THEN tm
    ELSE CarryDay(CarryMon([tm EXCEPT !.tm_mday = @ - DaysIn(tm.tm_year, tm.tm_mon),
                                      !.tm_mon = @ + 1]))

SetWday(tm) == [tm EXCEPT !.tm_wday = DayNumber(tm) % 7]

\* mktime(&tm) as it leaves tm
mktime(tm) == SetWday(CarryDay(CarryMon(CarryHour(CarryMin(tm)))))

\* the time_t mktime(&tm) returns, for tm as mktime leaves it
time_of(tm) == DayNumber(tm) * 1440 + tm.tm_hour * 60 + tm.tm_min

localtime(t) ==
    mktime([tm_year |-> EpochYear, tm_mon |-> 0, tm_mday |-> 1 + t \div 1440,
            tm_hour |-> (t % 1440) \div 60, tm_min |-> t % 60, tm_wday |-> 0])

\* the result of a cronemu_ function: its value and *wtm as it leaves it
Tried(ok, tm) == [ok |-> ok, tm |-> tm]

cronemu_min(wtm, min) ==
    IF min = -1 THEN Tried(TRUE, wtm)
    ELSE IF min < wtm.tm_min THEN Tried(FALSE, wtm)
    ELSE Tried(TRUE, IF min > wtm.tm_min THEN [wtm EXCEPT !.tm_min = min] ELSE wtm)

\* the loop of cronemu_hour on its copy workingtm
RECURSIVE cronemu_hour_any(_, _, _)
cronemu_hour_next(wtm, bumped, min) ==
    IF mktime(bumped).tm_hour # bumped.tm_hour THEN Tried(FALSE, wtm)
    ELSE cronemu_hour_any(wtm, mktime(bumped), min)

cronemu_hour_any(wtm, workingtm, min) ==
    IF cronemu_min(workingtm, min).ok THEN cronemu_min(workingtm, min)
    ELSE cronemu_hour_next(wtm, [workingtm EXCEPT !.tm_hour = @ + 1, !.tm_min = 0], min)

cronemu_hour(wtm, hour, min) ==
    IF hour = -1 THEN cronemu_hour_any(wtm, wtm, min)
    ELSE IF hour < wtm.tm_hour THEN Tried(FALSE, wtm)
    ELSE cronemu_min(IF hour > wtm.tm_hour
                     THEN [wtm EXCEPT !.tm_hour = hour, !.tm_min = 0] ELSE wtm, min)

\* the loop of cronemu_mday on its copy workingtm
RECURSIVE cronemu_mday_any(_, _, _, _)
cronemu_mday_next(wtm, bumped, hour, min) ==
    IF mktime(bumped).tm_mday # bumped.tm_mday THEN Tried(FALSE, wtm)
    ELSE cronemu_mday_any(wtm, mktime(bumped), hour, min)

cronemu_mday_any(wtm, workingtm, hour, min) ==
    IF cronemu_hour(workingtm, hour, min).ok THEN cronemu_hour(workingtm, hour, min)
    ELSE cronemu_mday_next(wtm, [cronemu_hour(workingtm, hour, min).tm
                                    EXCEPT !.tm_mday = @ + 1, !.tm_hour = 0,
                                           !.tm_min = 0], hour, min)

cronemu_mday(wtm, mday, hour, min) ==
    IF mday = -1 THEN cronemu_mday_any(wtm, wtm, hour, min)
    ELSE IF mday < wtm.tm_mday THEN Tried(FALSE, wtm)
    ELSE cronemu_hour(IF mday > wtm.tm_mday
                      THEN [wtm EXCEPT !.tm_mday = mday, !.tm_hour = 0, !.tm_min = 0]
                      ELSE wtm, hour, min)

\* the loop of cronemu_mon on its copy workingtm
RECURSIVE cronemu_mon_any(_, _, _, _, _)
cronemu_mon_next(wtm, bumped, mday, hour, min) ==
    IF mktime(bumped).tm_mon # bumped.tm_mon THEN Tried(FALSE, wtm)
    ELSE cronemu_mon_any(wtm, mktime(bumped), mday, hour, min)

cronemu_mon_any(wtm, workingtm, mday, hour, min) ==
    IF cronemu_mday(workingtm, mday, hour, min).ok
    THEN cronemu_mday(workingtm, mday, hour, min)
    ELSE cronemu_mon_next(wtm, [cronemu_mday(workingtm, mday, hour, min).tm
                                   EXCEPT !.tm_mon = @ + 1, !.tm_mday = 1,
                                          !.tm_hour = 0, !.tm_min = 0],
                          mday, hour, min)

cronemu_mon(wtm, mon, mday, hour, min) ==
    IF mon = -1 THEN cronemu_mon_any(wtm, wtm, mday, hour, min)
    ELSE IF mon < wtm.tm_mon THEN Tried(FALSE, wtm)
    ELSE cronemu_mday(IF mon > wtm.tm_mon
                      THEN [wtm EXCEPT !.tm_mon = mon, !.tm_mday = 1, !.tm_hour = 0,
                                       !.tm_min = 0]
                      ELSE wtm, mday, hour, min)

\* cronemu that starts at the minute of now
this_minute(now) == localtime(now)

\* cronemu that starts two minutes after the minute of now
minute_after_next(now) == [localtime(now) EXCEPT !.tm_min = @ + 2]

\* workingtm = *localtime(&now); workingtm.tm_min++
next_minute(now) == [localtime(now) EXCEPT !.tm_min = @ + 1]

\* the loop of cronemu over the years
RECURSIVE cronemu_years(_, _, _, _, _)
cronemu_years(workingtm, mon, mday, hour, min) ==
    IF cronemu_mon(workingtm, mon, mday, hour, min).ok
    THEN time_of(mktime(cronemu_mon(workingtm, mon, mday, hour, min).tm))
    ELSE cronemu_years(mktime([cronemu_mon(workingtm, mon, mday, hour, min).tm
                                  EXCEPT !.tm_year = @ + 1, !.tm_mon = 0,
                                         !.tm_mday = 1, !.tm_hour = 0, !.tm_min = 0]),
                       mon, mday, hour, min)

cronemu(now, mon, mday, hour, min) ==
    cronemu_years(next_minute(now), mon, mday, hour, min)

\* the loop of cronemu_wday over the days; cronemu_hour runs only on the
\* day of the week asked for
RECURSIVE cronemu_days(_, _, _, _)
cronemu_days_next(bumped, wday, hour, min) ==
    cronemu_days(mktime(cronemu_hour(bumped, hour, min).tm), wday, hour, min)

cronemu_days(workingtm, wday, hour, min) ==
    IF workingtm.tm_wday = wday
    THEN (IF cronemu_hour(workingtm, hour, min).ok
          THEN time_of(mktime(cronemu_hour(workingtm, hour, min).tm))
          ELSE cronemu_days_next([cronemu_hour(workingtm, hour, min).tm
                                     EXCEPT !.tm_mday = @ + 1, !.tm_hour = 0,
                                            !.tm_min = 0], wday, hour, min))
    ELSE cronemu_days_next([workingtm EXCEPT !.tm_mday = @ + 1, !.tm_hour = 0,
                                             !.tm_min = 0], wday, hour, min)

cronemu_wday(now, wday, hour, min) ==
    cronemu_days(next_minute(now), IF wday = 7 THEN 0 ELSE wday, hour, min)

\* job_set_alarm: the time the timer is set to, for j->start_cal_interval
later_of(cal, now) ==
    IF cal.tm_wday # -1
    THEN (IF cal.tm_mday # -1
          THEN (IF cronemu(now, cal.tm_mon, cal.tm_mday, cal.tm_hour, cal.tm_min)
                    < cronemu_wday(now, cal.tm_wday, cal.tm_hour, cal.tm_min)
                THEN cronemu(now, cal.tm_mon, cal.tm_mday, cal.tm_hour, cal.tm_min)
                ELSE cronemu_wday(now, cal.tm_wday, cal.tm_hour, cal.tm_min))
          ELSE cronemu_wday(now, cal.tm_wday, cal.tm_hour, cal.tm_min))
    ELSE cronemu(now, cal.tm_mon, cal.tm_mday, cal.tm_hour, cal.tm_min)

\* j->start_cal_interval: the fields load_job reads, -1 where the key is
\* missing
Intervals ==
    [tm_mon : {-1, 1, 11}, tm_mday : {-1, 1, 31}, tm_hour : {-1, 5, 23},
     tm_min : {-1, 0, 59}, tm_wday : {-1, 0, 3, 7}]

At(year, mon, mday, hour, min) ==
    time_of(mktime([tm_year |-> year, tm_mon |-> mon, tm_mday |-> mday,
                    tm_hour |-> hour, tm_min |-> min, tm_wday |-> 0]))

\* time(NULL) when the job is loaded: ends of hours, days, months and years,
\* in and before a leap year
Nows ==
    { At(EpochYear, 0, 1, 5, 59), At(EpochYear, 1, 10, 4, 30),
      At(EpochYear, 3, 30, 23, 59), At(EpochYear, 11, 31, 23, 59),
      At(EpochYear + 1, 1, 28, 23, 59), At(EpochYear + 1, 1, 29, 5, 0),
      At(EpochYear, 0, 31, 23, 0) }

\* the calendar: no job but the interval of one, and the clock
Calendar == [cap |-> 0, conns |-> 0, nproc |-> 0, depth |-> 0, kinds |-> {},
             labels |-> {}, pid1 |-> {FALSE}, watch |-> {"job_set_alarm"}]

\* last.arg is the interval, time(NULL) and the alarms set so far
Clock(cal, now, n) == [Nothing EXCEPT !.op = "time", !.arg = <<cal, now, n>>]

\* launchd with no job yet, about to load one with a StartCalendarInterval
InitCal ==
    /\ scope = Calendar
    /\ pid1 = FALSE
    /\ alive = TRUE
    /\ handshake = NoStart
    /\ ctl = NoCtl
    /\ session = NoSession
    /\ jobs = Empty.jobs
    /\ connections = Empty.connections
    /\ procs = Empty.procs
    /\ kq = Empty.kq
    /\ fdtable = Empty.fdtable
    /\ async_enabled = Empty.async_enabled
    /\ batch_disabler_count = Empty.batch_disabler_count
    /\ total_children = Empty.total_children
    /\ shutdown_in_progress = Empty.shutdown_in_progress
    /\ \E cal \in Intervals : \E now \in Nows : last = Clock(cal, now, 0)

\* load_job or job_callback calls job_set_alarm
SetAlarm ==
    /\ last.op = "time"
    /\ last' = [last EXCEPT !.op = "job_set_alarm",
                            !.resp = <<later_of(last.arg[1], last.arg[2])>>]
    /\ UNCHANGED <<jobs, connections, procs, kq, fdtable, async_enabled,
                   batch_disabler_count, total_children, shutdown_in_progress,
                   pid1, alive, handshake, ctl, session, scope>>

\* the timer fires at the time set or a minute late, and job_callback sets
\* the next alarm
AlarmFired ==
    /\ last.op = "job_set_alarm"
    /\ last.arg[3] < MaxAlarms
    /\ \E late \in 0..1 :
         last' = Clock(last.arg[1], last.resp[1] + late, last.arg[3] + 1)
    /\ UNCHANGED <<jobs, connections, procs, kq, fdtable, async_enabled,
                   batch_disabler_count, total_children, shutdown_in_progress,
                   pid1, alive, handshake, ctl, session, scope>>

NextCal == SetAlarm \/ AlarmFired

SpecCal == InitCal /\ [][NextCal]_vars

\* the fields of the interval that tm has: every key given agrees, weekday
\* 7 being Sunday
Matches(tm, cal) ==
    /\ cal.tm_min # -1 => tm.tm_min = cal.tm_min
    /\ cal.tm_hour # -1 => tm.tm_hour = cal.tm_hour
    /\ cal.tm_mday # -1 => tm.tm_mday = cal.tm_mday
    /\ cal.tm_mon # -1 => tm.tm_mon = cal.tm_mon
    /\ cal.tm_wday # -1 => tm.tm_wday = cal.tm_wday % 7

\* C19: for every calendar interval (month, day, hour, minute, weekday, -1
\* for any) and every time now, the time job_set_alarm sets the timer to is
\* later than now.
C19_AlarmLater ==
    last.op = "job_set_alarm" => last.resp[1] > last.arg[2]

\* C19 witness: at 23:59 of December 31st an interval of every minute has
\* its alarm set to 00:00 of January 1st, one minute later.
C19_Witness ==
    /\ last.op = "job_set_alarm"
    /\ last.arg[2] = At(EpochYear, 11, 31, 23, 59)
    /\ \A f \in DOMAIN last.arg[1] : last.arg[1][f] = -1
    /\ last.resp[1] = last.arg[2] + 1
    /\ localtime(last.resp[1]).tm_year = EpochYear + 1

\* C20: for every calendar interval and every time now, the local time of
\* the alarm agrees with the interval in every field that is not -1
\* (minute, hour, day of the month, month, weekday), also when the minute of
\* now is 59, when the month has no such day, and when a weekday comes with
\* a month.
C20_AlarmMatches ==
    last.op = "job_set_alarm" => Matches(localtime(last.resp[1]), last.arg[1])

MinutesInDay == 24 * 60

\* the hours and the minutes an interval allows
HoursOf(cal) == IF cal.tm_hour = -1 THEN 0..23 ELSE {cal.tm_hour}

MinutesOf(cal) == IF cal.tm_min = -1 THEN 0..59 ELSE {cal.tm_min}

\* a whole minute after now and before next whose local time has every
\* field the interval gives: a day from that of now to that of next that
\* agrees with month, day and weekday, and in it an hour and a minute
MatchBetween(cal, now, next) ==
    \E d \in (now \div MinutesInDay)..((next - 1) \div MinutesInDay) :
        /\ Matches(localtime(d * MinutesInDay),
                   [cal EXCEPT !.tm_hour = -1, !.tm_min = -1])
        /\ \E h \in HoursOf(cal) : \E m \in MinutesOf(cal) :
              /\ now < d * MinutesInDay + h * 60 + m
              /\ d * MinutesInDay + h * 60 + m < next

\* C21: the alarm is the earliest time that matches: for every calendar
\* interval and every time now, no whole minute after now and before the
\* time of the alarm matches the interval.
C21_AlarmEarliest ==
    last.op = "job_set_alarm"
        => ~MatchBetween(last.arg[1], last.arg[2], last.resp[1])

\* C21 witness: an alarm more than a day after now that matches its
\* interval, none of the minutes before it matching.
C21_Witness ==
    /\ last.op = "job_set_alarm"
    /\ last.resp[1] > last.arg[2] + MinutesInDay
    /\ Matches(localtime(last.resp[1]), last.arg[1])
    /\ \A t \in (last.arg[2] + 1)..(last.arg[2] + MinutesInDay) :
          ~Matches(localtime(t), last.arg[1])

\* the entries whose child has failed to exec: it has written its errno to
\* the exec pipe and called _exit
ExecFailed == {i \in 1..Len(jobs) : jobs[i].p # 0 /\ procs[jobs[i].p] = "execfailed"}

\* C22: whenever a started child fails to exec, the job is removed from the
\* registry, in every order in which the readable exec pipe and the exit of
\* the child reach job_callback: no step that handles either event, ending
\* with the child reaped or the pipe closed, leaves the job in the registry.
C22_ExecFailureRemoves ==
    [][\A i \in ExecFailed :
          (procs'[jobs[i].p] # "execfailed" \/ ExecFd(jobs[i].p) \notin fdtable')
              => \A k \in 1..Len(jobs') : jobs'[k].id # jobs[i].id]_vars

----------------------------------------------------------------------------
(* job_start statement by statement: the parent's branch of the switch on   *)
(* fork() runs while the child, a copy of the supervisor, closes its copy   *)
(* of the parent's end of the exec socket pair and blocks in read() on its  *)
(* own end until the parent has written to it.                              *)

\* the parent's branch with the write before the EVFILT_PROC knote
job_start_write_early == <<"execfd", "ipc_open", "kevent_read", "write", "kevent_proc">>

\* case default: the statements in their order
job_start_default == <<"execfd", "ipc_open", "kevent_read", "kevent_proc", "write">>

job_start_statement(w, s, h) ==
    CASE s = "execfd" ->
           opened(Set(w, h.id, "execfd", ExecFd(h.c)), ExecFd(h.c))
      [] s = "ipc_open" -> ipc_open_sipc(w, h.sipc, h.id, h.c)
      [] s = "kevent_read" ->
           kevent_add(w, ExecFd(h.c), "READ", FALSE, JobUdata(h.id))
      [] s = "kevent_proc" ->
           ignore_od([Set(kevent_add(w, h.c, "PROC", TRUE, JobUdata(h.id)),
                          h.id, "p", h.c) EXCEPT !.total_children = @ + 1], h.id)
      [] s = "write" -> w

\* job_start's test of j->p, a handler having called it
job_start_sipc(j) ==
    job_get_bool(j.ldj, "ServiceIPC") \/ "InetdCompatibility" \in DOMAIN j.ldj

\* the world and the place after fork() has returned c in the parent
job_start_forked(w, id, c) ==
    IF c = -1 THEN [w |-> ignore_od(w, id), h |-> handshake]
    ELSE [w |-> [w EXCEPT !.procs[c] = "forked"],
          h |-> [handshake EXCEPT !.pc = 1, !.id = id, !.c = c,
                                  !.sipc = job_start_sipc(Job(w, id))]]

Stepped(r) ==
    /\ InScope(r.w)
    /\ Commit(r.w)
    /\ handshake' = r.h
    /\ last' = Nothing
    /\ UNCHANGED <<pid1, alive, ctl, session, scope>>

\* a handler calls job_start for a job that has no child: up to fork()
JobStartFork ==
    /\ Waiting
    /\ \E i \in 1..Len(jobs) : \E forkok \in BOOLEAN :
         /\ jobs[i].p = 0
         /\ Stepped(job_start_forked(
                Set(World, jobs[i].id, "checkedin", FALSE), jobs[i].id,
                fork(World, [NoEnv EXCEPT !.forkok = forkok])))

\* the place after the statement at pc, the byte written being in the socket
job_start_next(h, s) ==
    [IF h.pc = Len(job_start_default) THEN NoStart ELSE [h EXCEPT !.pc = @ + 1]
        EXCEPT !.sent = IF s = "write" THEN h.sent \cup {h.c} ELSE h.sent]

\* the parent runs one statement of its branch
JobStartStep ==
    /\ alive /\ handshake.pc > 0
    /\ Stepped([w |-> job_start_statement(
                         World, job_start_default[handshake.pc], handshake),
                h |-> job_start_next(handshake, job_start_default[handshake.pc])])

\* case 0: close(execspair[0])
ChildClose ==
    /\ alive
    /\ \E p \in Pids :
         /\ procs[p] = "forked"
         /\ procs' = [procs EXCEPT ![p] = "reading"]
    /\ Quiet
    /\ UNCHANGED <<jobs, connections, kq, fdtable, async_enabled,
                   batch_disabler_count, total_children, shutdown_in_progress,
                   pid1, alive>>

\* case 0: read(execspair[1]) returns once the socket holds a byte
ChildRead ==
    /\ alive
    /\ \E p \in Pids :
         /\ procs[p] = "reading" /\ p \in handshake.sent
         /\ procs' = [procs EXCEPT ![p] = "released"]
         /\ handshake' = [handshake EXCEPT !.sent = @ \ {p}]
    /\ last' = Nothing
    /\ UNCHANGED <<jobs, connections, kq, fdtable, async_enabled,
                   batch_disabler_count, total_children, shutdown_in_progress,
                   pid1, alive, ctl, session, scope>>

\* the start of a job: one job of any kind and one child, the supervisor
\* not PID 1
Hand == [cap |-> MaxJobs - 1, conns |-> MaxConns, nproc |-> MaxProcs - 1,
         depth |-> MaxFailures - 1, kinds |-> Kinds, labels |-> {"a"},
         pid1 |-> {FALSE}, watch |-> {}]

InitStart == Start(Hand)

NextStart == SubmitJob \/ JobStartFork \/ JobStartStep \/ ChildClose \/ ChildRead
             \/ ChildExec \/ ChildExit \/ ExecPipe \/ ProcExit

SpecStart == InitStart /\ [][NextStart]_vars

\* the child of pid p waits for its parent: it has not passed the read
Held(p) == procs[p] \in {"forked", "reading"}

----------------------------------------------------------------------------
(* launchctl load and unload: the property lists as launch_data values      *)

Array(elems) == [type |-> "array", elems |-> elems]
Bool(b) == [type |-> "bool", boolean |-> b]
NULL == [type |-> "NULL"]

RECURSIVE launch_data_dict_lookup(_, _)
launch_data_dict_lookup(dict, key) ==
    IF dict.entries = <<>> THEN NULL
    ELSE IF Head(dict.entries).key = key THEN Head(dict.entries).data
    ELSE launch_data_dict_lookup(Dictionary(Tail(dict.entries)), key)

\* the entries of a dictionary without those of a key
RECURSIVE Without(_, _)
Without(entries, key) ==
    IF entries = <<>> THEN <<>>
    ELSE IF Head(entries).key = key THEN Without(Tail(entries), key)
    ELSE <<Head(entries)>> \o Without(Tail(entries), key)

launch_data_dict_insert(dict, data, key) ==
    Dictionary(Without(dict.entries, key) \o <<Entry(key, data)>>)

launch_data_dict_remove(dict, key) == Dictionary(Without(dict.entries, key))

\* delay_to_second_pass2 over the entries of a dictionary (key given) and
\* the elements of an array (key NULL, here ""), res being *context
RECURSIVE delay_to_second_pass2(_, _, _)
RECURSIVE delay_dict_iterate(_, _)
RECURSIVE delay_array(_, _)
delay_dict_iterate(entries, res) ==
    IF entries = <<>> THEN res
    ELSE delay_dict_iterate(Tail(entries),
            delay_to_second_pass2(Head(entries).data, Head(entries).key, res))

delay_array(elems, res) ==
    IF elems = <<>> THEN res
    ELSE delay_array(Tail(elems), delay_to_second_pass2(Head(elems), "", res))

delay_to_second_pass2(o, key, res) ==
    IF key = "Bonjour" THEN TRUE
    ELSE IF o.type = "dictionary" THEN delay_dict_iterate(o.entries, res)
    ELSE IF o.type = "array" THEN delay_array(o.elems, res)
    ELSE res

delay_to_second_pass(o) ==
    IF launch_data_dict_lookup(o, "Sockets").type = "NULL" THEN FALSE
    ELSE delay_to_second_pass2(launch_data_dict_lookup(o, "Sockets"), "", FALSE)

\* the values a Bonjour key is given
BonjourValues ==
    <<Bool(TRUE), Bool(FALSE), String("ssh"), Array(<<String("ssh"), String("sftp")>>)>>

SocketEntry(bonjour) ==
    Dictionary(<<Entry("SockServiceName", String("ssh"))>> \o bonjour)

\* a socket entry without the key, and one with each of its values
SocketEntries ==
    <<SocketEntry(<<>>)>>
    \o [n \in 1..Len(BonjourValues) |-> SocketEntry(<<Entry("Bonjour", BonjourValues[n])>>)]

\* the value of a socket: an entry, an array of one entry, an array of two
SocketValues ==
    SocketEntries
    \o [n \in 1..Len(SocketEntries) |-> Array(<<SocketEntries[n]>>)]
    \o <<Array(<<SocketEntries[1], SocketEntries[2]>>)>>

Plist(label, more) ==
    Dictionary(<<Entry("Label", String(label)), Entry("Program", String("/bin/p"))>>
               \o more)

\* the property lists of the files: without Sockets, with one socket of
\* each value, with a socket named Bonjour, with a Bonjour key outside
\* Sockets, with two sockets, Disabled, and those readfile ignores
Plists ==
    <<Plist("a", <<>>)>>
    \o [n \in 1..Len(SocketValues) |->
          Plist("b", <<Entry("Sockets", Dictionary(<<Entry("Listeners", SocketValues[n])>>))>>)]
    \o <<Plist("b", <<Entry("Sockets", Dictionary(<<Entry("Bonjour", SocketEntries[1])>>))>>),
         Plist("a", <<Entry("Bonjour", Bool(TRUE))>>),
         Plist("a", <<Entry("Sockets", Dictionary(<<>>))>>),
         Plist("b", <<Entry("Sockets", Dictionary(<<Entry("Listeners", SocketEntries[1]),
                                                    Entry("Others", SocketEntries[2])>>))>>),
         Plist("a", <<Entry("Disabled", Bool(TRUE))>>),
         Plist("b", <<Entry("Disabled", Bool(FALSE)),
                      Entry("Sockets", Dictionary(<<Entry("Listeners", SocketEntries[2])>>))>>),
         Dictionary(<<Entry("Program", String("/bin/p"))>>),
         Dictionary(<<Entry("Label", String("a"))>>)>>

----------------------------------------------------------------------------
(* The paths given to launchctl: a path is its characters, what stat()     *)
(* says of it, the property list in it (0: none can be read) and, for a    *)
(* directory, the files in it.                                              *)

PlistSuffix == <<".", "p", "l", "i", "s", "t">>

Names ==
    << <<"a">> \o PlistSuffix, <<"a", ".", "P", "L", "i", "S", "T">>,
       <<"a", ".", "t", "x", "t">>, <<"p", "l", "i", "s", "t">>,
       <<"a">> \o PlistSuffix \o <<"~">> >>

\* fnmatch without FNM_CASEFOLD
keepcase(ch) == ch

\* FNM_CASEFOLD
tolower(ch) ==
    CASE ch = "P" -> "p" [] ch = "L" -> "l" [] ch = "I" -> "i"
      [] ch = "S" -> "s" [] ch = "T" -> "t" [] OTHER -> ch

\* fnmatch("*.plist", path, FNM_CASEFOLD) != FNM_NOMATCH
fnmatch_plist(path) ==
    /\ Len(path) >= Len(PlistSuffix)
    /\ \A i \in 1..Len(PlistSuffix) :
          tolower(path[Len(path) - Len(PlistSuffix) + i]) = PlistSuffix[i]

Uids == <<"root", "user", "other">>
getuid == "user"
FileTypes == <<"reg", "dir", "fifo">>

Stat(w, uid, type) == [exists |-> TRUE, w |-> w, uid |-> uid, type |-> type]
ENOENT == [exists |-> FALSE, w |-> FALSE, uid |-> "root", type |-> "reg"]

File(path, st, plist, entries) ==
    [path |-> path, st |-> st, plist |-> plist, entries |-> entries]

\* the files of a directory: a good one for each pass, a hidden one, one
\* writable by its group
DirEntries ==
    <<File(Names[1], Stat(FALSE, "root", "reg"), 1, <<>>),
      File(<<".">> \o Names[1], Stat(FALSE, "root", "reg"), 2, <<>>),
      File(Names[2], Stat(TRUE, "root", "reg"), 2, <<>>),
      File(<<"b">> \o PlistSuffix, Stat(FALSE, "user", "reg"), 3, <<>>)>>

\* every answer of stat() for every name, then a good file of every
\* property list and one that cannot be read, then a path that is not there
StatCount == 2 * Len(Uids) * Len(FileTypes) * Len(Names)

StatFile(n) ==
    File(Names[(n % Len(Names)) + 1],
         Stat((n \div Len(Names)) % 2 = 1,
              Uids[((n \div (2 * Len(Names))) % Len(Uids)) + 1],
              FileTypes[((n \div (2 * Len(Names) * Len(Uids))) % Len(FileTypes)) + 1]),
         1,
         IF FileTypes[((n \div (2 * Len(Names) * Len(Uids))) % Len(FileTypes)) + 1] = "dir"
         THEN DirEntries ELSE <<>>)

Files ==
    [n \in 1..StatCount |-> StatFile(n - 1)]
    \o [n \in 1..Len(Plists) |-> File(Names[1], Stat(FALSE, "root", "reg"), n, <<>>)]
    \o <<File(Names[1], Stat(FALSE, "root", "reg"), 0, <<>>),
         File(Names[1], ENOENT, 0, <<>>)>>

path_goodness_check(f, forceload) ==
    IF ~f.st.exists THEN FALSE
    ELSE IF forceload THEN TRUE
    ELSE IF f.st.w THEN FALSE
    ELSE IF f.st.uid # "root" /\ f.st.uid # getuid THEN FALSE
    ELSE IF ~(f.st.type = "reg" \/ f.st.type = "dir") THEN FALSE
    ELSE IF f.st.type # "dir" /\ ~fnmatch_plist(f.path) THEN FALSE
    ELSE TRUE

----------------------------------------------------------------------------
(* read_plist_file, readfile, readpath.  c is the launchctl process: lus   *)
(* (load, editondisk, forceload, pass1, pass2), g_job_overrides_db (has_db, *)
(* db: the labels it gives Disabled false and true) and                     *)
(* g_job_overrides_db_has_changed (changed).                                *)

Labelled(plist) == launch_data_dict_lookup(plist, "Label").type = "string"

LabelIn(plist) == launch_data_dict_lookup(plist, "Label").string

\* CFDictionaryApplyFunction(overrides, job_override, plist)
job_override(c, plist) ==
    IF c.has_db /\ Labelled(plist) /\ LabelIn(plist) \in c.db.on \cup c.db.off
    THEN launch_data_dict_insert(plist, Bool(LabelIn(plist) \in c.db.off), "Disabled")
    ELSE plist

\* the entry of the label in the database set to Disabled = disabled
db_set(db, label, disabled) ==
    IF disabled THEN [on |-> db.on \ {label}, off |-> db.off \cup {label}]
    ELSE [on |-> db.on \cup {label}, off |-> db.off \ {label}]

\* if (editondisk): plist is the property list with the overrides applied
read_plist_edit(c, plist) ==
    IF c.has_db
    THEN IF ~Labelled(plist)
         THEN [c |-> [c EXCEPT !.pc = "crashed"], job |-> NULL]
         ELSE [c |-> [c EXCEPT !.db = db_set(@, LabelIn(plist), ~c.load),
                               !.changed = TRUE, !.edited = TRUE],
               job |-> launch_data_dict_insert(plist, Bool(~c.load), "Disabled")]
    ELSE [c |-> [c EXCEPT !.wrote_plist = TRUE],
          job |-> IF c.load THEN launch_data_dict_remove(plist, "Disabled")
                  ELSE launch_data_dict_insert(plist, Bool(TRUE), "Disabled")]

read_plist_file(c, f) ==
    IF f.plist = 0 THEN [c |-> c, job |-> NULL]
    ELSE IF c.editondisk THEN read_plist_edit(c, job_override(c, Plists[f.plist]))
    ELSE [c |-> c, job |-> job_override(c, Plists[f.plist])]

job_disabled_logic(obj) == obj.type = "bool" /\ obj.boolean

\* readfile after read_plist_file has returned thejob
readfile_job(c, thejob) ==
    IF c.pc = "crashed" \/ thejob.type = "NULL" THEN c
    ELSE IF ~Labelled(thejob) THEN c
    ELSE IF launch_data_dict_lookup(thejob, "Program").type = "NULL"
            /\ launch_data_dict_lookup(thejob, "ProgramArguments").type = "NULL"
    THEN c
    ELSE IF ~c.forceload /\ c.load
            /\ job_disabled_logic(launch_data_dict_lookup(thejob, "Disabled"))
    THEN c
    ELSE IF delay_to_second_pass(thejob)
    THEN [c EXCEPT !.pass2 = Append(@, thejob)]
    ELSE [c EXCEPT !.pass1 = Append(@, thejob)]

readfile_read(r) == readfile_job(r.c, r.job)

readfile(c, f) ==
    IF c.pc = "crashed" THEN c ELSE readfile_read(read_plist_file(c, f))

\* while ((de = readdir(d)))
RECURSIVE readdir(_, _)
readdir(c, entries) ==
    IF entries = <<>> THEN c
    ELSE IF Head(entries).path[1] = "." THEN readdir(c, Tail(entries))
    ELSE IF ~path_goodness_check(Head(entries), c.forceload)
    THEN readdir(c, Tail(entries))
    ELSE readdir(readfile(c, Head(entries)), Tail(entries))

\* readpath after path_goodness_check has returned good
readpath_checked(c, f, good) ==
    IF ~good THEN c
    ELSE IF f.st.type = "reg" THEN readfile(c, f)
    ELSE IF f.st.type = "dir" THEN readdir(c, f.entries)
    ELSE c

readpath(c, f) == readpath_checked(c, f, path_goodness_check(f, c.forceload))

----------------------------------------------------------------------------
(* load_and_unload_cmd, command by command of an interactive launchctl     *)

NoDb == [on |-> {}, off |-> {}]

\* launchctl at its prompt, no command run yet, the database file empty
AtPrompt ==
    [pc |-> "prompt", ncmd |-> 0, load |-> TRUE, editondisk |-> FALSE,
     forceload |-> FALSE, pass1 |-> <<>>, pass2 |-> <<>>, has_db |-> FALSE,
     db |-> NoDb, changed |-> FALSE, disk |-> NoDb, locked |-> FALSE,
     edited |-> FALSE, step |-> 0, distilled |-> {}, requests |-> <<>>,
     answered |-> {}, path |-> 0, good |-> FALSE, wrote_db |-> FALSE,
     dbfd |-> FALSE]

\* the options parsed and the database opened with O_EXLOCK and read; when
\* its path or the open fails g_job_overrides_db is left as it was
load_and_unload_opened(c, load, editondisk, forceload, dbopen) ==
    [c EXCEPT !.load = load, !.editondisk = editondisk, !.forceload = forceload,
              !.pass1 = <<>>, !.pass2 = <<>>, !.edited = FALSE,
              !.wrote_db = FALSE,
              !.has_db = IF dbopen THEN TRUE ELSE @,
              !.db = IF dbopen THEN c.disk ELSE @,
              !.dbfd = dbopen,
              !.locked = IF dbopen THEN TRUE ELSE @]

\* return to the prompt: what the command has left in lus is dropped
Returned(c) ==
    [c EXCEPT !.pc = "prompt", !.ncmd = @ + 1, !.pass1 = <<>>, !.pass2 = <<>>,
              !.load = TRUE, !.editondisk = FALSE, !.forceload = FALSE,
              !.edited = FALSE, !.step = 0, !.distilled = {},
              !.requests = <<>>, !.answered = {}, !.path = 0, !.good = FALSE,
              !.dbfd = FALSE]

\* after the paths are read: nothing found returns 1, the database neither
\* written nor unlocked nor closed
load_and_unload_read(c) ==
    IF c.pc = "crashed" THEN c
    ELSE IF c.pass1 = <<>> /\ c.pass2 = <<>> THEN Returned(c)
    ELSE [c EXCEPT !.pc = "run", !.step = 1]

Launchctl(c) ==
    /\ ctl' = c
    /\ UNCHANGED <<jobs, connections, procs, kq, fdtable, async_enabled,
                   batch_disabler_count, total_children, shutdown_in_progress,
                   pid1, alive, last, handshake, session, scope>>

\* a load or unload command with one path, up to readpath; the open of a
\* database whose lock an earlier command has kept blocks
Command ==
    /\ ctl.pc = "prompt" /\ ctl.ncmd < MaxCommands
    /\ \E load, editondisk, forceload, dbopen \in BOOLEAN :
        \E n \in 1..Len(Files) :
          IF dbopen /\ ctl.locked
          THEN Launchctl([ctl EXCEPT !.pc = "blocked"])
          ELSE Launchctl([load_and_unload_opened(ctl, load, editondisk,
                                                 forceload, dbopen)
                             EXCEPT !.pc = "check", !.path = n])

\* readpath: if (!path_goodness_check(what, lus->forceload))
Check ==
    /\ ctl.pc = "check"
    /\ Launchctl([ctl EXCEPT !.pc = "read",
                             !.good = path_goodness_check(Files[ctl.path],
                                                          ctl.forceload)])

\* the rest of readpath, and the test for nothing found
Read ==
    /\ ctl.pc = "read"
    /\ Launchctl(load_and_unload_read(
           readpath_checked([ctl EXCEPT !.pc = "reading"], Files[ctl.path],
                            ctl.good)))

\* the labels of the jobs of a pass that have Sockets
RECURSIVE WithSockets(_)
WithSockets(pass) ==
    IF pass = <<>> THEN {}
    ELSE (IF launch_data_dict_lookup(Head(pass), "Sockets").type = "NULL"
          THEN {} ELSE {LabelIn(Head(pass))}) \cup WithSockets(Tail(pass))

\* distill_jobs: the sockets of the jobs are made and bound, their names
\* registered
distill_jobs(c, n, pass) == [c EXCEPT !.distilled = @ \cup {n}]

\* launch_msg: the request is sent and the response waited for
launch_msg(c, n, pass) ==
    [c EXCEPT !.requests = Append(@, [pass |-> n, jobs |-> pass]), !.pc = "wait"]

submit_job_pass(c, n, pass) ==
    IF pass = <<>> THEN c ELSE launch_msg(c, n, pass)

\* if (lus.load) with the second pass distilled before the first is sent
load_statements_early == <<"distill1", "distill2", "submit1", "submit2">>

\* if (lus.load): the statements in their order
load_statements == <<"distill1", "submit1", "distill2", "submit2">>

load_statement(c, st) ==
    CASE st = "distill1" -> distill_jobs(c, 1, c.pass1)
      [] st = "submit1" -> submit_job_pass(c, 1, c.pass1)
      [] st = "distill2" -> distill_jobs(c, 2, c.pass2)
      [] st = "submit2" -> submit_job_pass(c, 2, c.pass2)

\* the statement done: on to the next, or after the last to the end
Next_statement(c) ==
    IF c.step = Len(load_statements)
    THEN [c EXCEPT !.step = 0, !.pc = IF @ = "wait" THEN "wait" ELSE "finish"]
    ELSE [c EXCEPT !.step = @ + 1]

LoadStep ==
    /\ ctl.pc = "run" /\ ctl.load
    /\ Launchctl(Next_statement(load_statement(ctl, load_statements[ctl.step])))

\* launchd's response arrives and launch_msg returns
Response ==
    /\ ctl.pc = "wait"
    /\ Launchctl([ctl EXCEPT
           !.answered = @ \cup {ctl.requests[Len(ctl.requests)].pass},
           !.pc = IF ctl.step = 0 THEN "finish" ELSE "run"])

\* else: unloadjob for the jobs of both passes
UnloadStep ==
    /\ ctl.pc = "run" /\ ~ctl.load
    /\ Launchctl([ctl EXCEPT !.pc = "finish", !.step = 0])

\* if (g_job_overrides_db_has_changed) WriteMyPropertyListToFile; flock;
\* close; return 0
load_and_unload_end(c) ==
    Returned([c EXCEPT !.disk = IF c.changed THEN c.db ELSE @,
                       !.wrote_db = c.changed,
                       !.locked = IF c.dbfd THEN FALSE ELSE @])

Finish ==
    /\ ctl.pc = "finish"
    /\ Launchctl(load_and_unload_end(ctl))

InitLoad ==
    /\ scope = Calendar
    /\ pid1 = FALSE
    /\ alive = TRUE
    /\ handshake = NoStart
    /\ last = Nothing
    /\ ctl = AtPrompt
    /\ session = NoSession
    /\ jobs = Empty.jobs
    /\ connections = Empty.connections
    /\ procs = Empty.procs
    /\ kq = Empty.kq
    /\ fdtable = Empty.fdtable
    /\ async_enabled = Empty.async_enabled
    /\ batch_disabler_count = Empty.batch_disabler_count
    /\ total_children = Empty.total_children
    /\ shutdown_in_progress = Empty.shutdown_in_progress

NextLoad == Command \/ Check \/ Read \/ LoadStep \/ Response \/ UnloadStep \/ Finish

SpecLoad == InitLoad /\ [][NextLoad]_vars

\* a Bonjour value that asks for registration: true, a name, names
Truthy(value) ==
    IF value.type = "bool" THEN value.boolean
    ELSE value.type = "string" \/ value.type = "array"

\* a socket entry with a truthy Bonjour
TruthyEntry(entry) ==
    /\ entry.type = "dictionary"
    /\ launch_data_dict_lookup(entry, "Bonjour").type # "NULL"
    /\ Truthy(launch_data_dict_lookup(entry, "Bonjour"))

TruthySocket(value) ==
    IF value.type = "array"
    THEN \E k \in 1..Len(value.elems) : TruthyEntry(value.elems[k])
    ELSE TruthyEntry(value)

WantsBonjour(job) ==
    /\ launch_data_dict_lookup(job, "Sockets").type = "dictionary"
    /\ \E i \in 1..Len(launch_data_dict_lookup(job, "Sockets").entries) :
          TruthySocket(launch_data_dict_lookup(job, "Sockets").entries[i].data)

\* C24: during a load a job description is put in pass 2 if and only if its
\* Sockets hold an entry whose Bonjour value is truthy (true, a string or
\* an array of names); one with no Sockets, no Bonjour key or Bonjour false
\* is put in pass 1.
C24_Routing ==
    ctl.pc \in {"run", "wait", "finish"} =>
        /\ \A i \in 1..Len(ctl.pass2) : WantsBonjour(ctl.pass2[i])
        /\ \A i \in 1..Len(ctl.pass1) : ~WantsBonjour(ctl.pass1[i])

\* the passes a request has been sent for
Submitted(c) == {c.requests[i].pass : i \in 1..Len(c.requests)}

Pass(c, n) == IF n = 1 THEN c.pass1 ELSE c.pass2

GoodAsClaimed(f, forceload) ==
    /\ f.st.exists
    /\ forceload \/ ~f.st.w
    /\ f.st.uid \in {"root", getuid}
    /\ f.st.type \in {"reg", "dir"}
    /\ f.st.type = "reg" => fnmatch_plist(f.path)

\* C26 as claimed: a path passes the goodness check if and only if it
\* exists, is not writable by group or others (unless -F forces), is owned
\* by uid 0 or the invoking user, is a regular file or a directory and, when
\* a file, has a name matching *.plist without regard to case; force
\* relaxes only the test of writability.
C26_GoodnessAsClaimed ==
    ctl.pc = "read" => (ctl.good <=> GoodAsClaimed(Files[ctl.path], ctl.forceload))

\* C26 amended: a path passes the goodness check if and only if it exists
\* and either -F forces or it is not writable by group or others, is owned
\* by uid 0 or the invoking user, is a regular file or a directory and, when
\* not a directory, has a name matching *.plist without regard to case;
\* force relaxes every test but that of existence.
C26_Goodness ==
    ctl.pc = "read" =>
        (ctl.good <=>
            /\ Files[ctl.path].st.exists
            /\ \/ ctl.forceload
               \/ /\ ~Files[ctl.path].st.w
                  /\ Files[ctl.path].st.uid \in {"root", getuid}
                  /\ Files[ctl.path].st.type \in {"reg", "dir"}
                  /\ Files[ctl.path].st.type = "reg"
                        => \E n \in {Len(Files[ctl.path].path)} :
                             /\ n >= Len(PlistSuffix)
                             /\ \A i \in 1..Len(PlistSuffix) :
                                   Files[ctl.path].path[n - Len(PlistSuffix) + i]
                                       \in {PlistSuffix[i], <<".", "P", "L", "I", "S", "T">>[i]})

\* C26 witness: a regular file of the user, not writable by others, whose
\* name ends in .PLiST, passes without -F.
C26_Witness ==
    /\ ctl.pc = "read" /\ ctl.good /\ ~ctl.forceload
    /\ Files[ctl.path].st.type = "reg"
    /\ Files[ctl.path].st.uid = getuid
    /\ Files[ctl.path].path = Names[2]

\* C27: over the load and unload commands of one launchctl, the database
\* file is rewritten at the end of a command only if that command has
\* modified the database (a request with -w has set the Disabled value of
\* an entry).
C27_WrittenIfEdited ==
    [][(ctl.pc = "finish" /\ ctl'.wrote_db) => ctl.edited]_vars

----------------------------------------------------------------------------
\* launchd_server_init and launchd_clean_up of several supervisors started
\* for one (uid, session): one directory path, one socket path

Sups == 1..MaxSups

\* session.dir    the inode of the directory at ourdir, 0 when there is none
\* session.made   the directories made so far
\* session.sock   the supervisor whose socket is at sun_path, 0 when none
\* session.lock   the holder of the flock of each directory inode made
\* session.sup    each supervisor's place and its ourdirfd
AtStart ==
    [dir |-> 0, made |-> 0, sock |-> 0,
     lock |-> [d \in Sups |-> 0],
     sup |-> [s \in Sups |-> [pc |-> "mkdir", ourdirfd |-> 0]]]

Supervisors(r) ==
    /\ session' = r
    /\ UNCHANGED <<jobs, connections, procs, kq, fdtable, async_enabled,
                   batch_disabler_count, total_children, shutdown_in_progress,
                   pid1, alive, last, handshake, ctl, scope>>

Goes(ss, s, pc) == [ss EXCEPT !.sup[s].pc = pc]

\* close(ourdirfd), by out_bad or by the end of the process, drops its lock
closed(ss, s) ==
    [ss EXCEPT !.lock = [d \in Sups |-> IF ss.lock[d] = s THEN 0 ELSE ss.lock[d]],
               !.sup[s].ourdirfd = 0]

\* unlink(ourdir) fails on a directory; mkdir(ourdir) makes it or finds it
server_init_mkdir(ss, s) ==
    IF ss.dir = 0
    THEN Goes([ss EXCEPT !.dir = ss.made + 1, !.made = ss.made + 1], s, "open")
    ELSE Goes(ss, s, "open")

\* ourdirfd = open(ourdir, O_RDONLY), goto out_bad when it fails
server_init_open(ss, s) ==
    IF ss.dir = 0 THEN Goes(ss, s, "bad")
    ELSE Goes([ss EXCEPT !.sup[s].ourdirfd = ss.dir], s, "flock")

\* flock(ourdirfd, LOCK_EX|LOCK_NB): exit(EXIT_SUCCESS) on EWOULDBLOCK
server_init_flock(ss, s) ==
    IF ss.lock[ss.sup[s].ourdirfd] # 0
    THEN Goes(closed(ss, s), s, "exited")
    ELSE Goes([ss EXCEPT !.lock[ss.sup[s].ourdirfd] = s], s, "unlink")

\* unlink(sun.sun_path) removes the socket found at the path; ENOENT passes
unlink_sock(ss) == IF ss.dir # 0 THEN [ss EXCEPT !.sock = 0] ELSE ss

server_init_unlink(ss, s) == Goes(unlink_sock(ss), s, "bind")

\* socket, bind, listen, kevent_mod, launchd_inited, atexit; a bind that
\* fails goes to out_bad, which closes fd and ourdirfd
server_init_bind(ss, s) ==
    IF ss.dir = 0 \/ ss.sock # 0 THEN Goes(closed(ss, s), s, "bad")
    ELSE Goes([ss EXCEPT !.sock = s], s, "serving")

\* launchd_clean_up: if (assumes(unlink(sockpath) != -1))
clean_up_unlink(ss, s) ==
    IF ss.dir # 0 /\ ss.sock # 0 THEN Goes(unlink_sock(ss), s, "rmdir")
    ELSE Goes(closed(ss, s), s, "exited")

\* launchd_clean_up: assumes(rmdir(sockdir) != -1), then the process ends
clean_up_rmdir(ss, s) ==
    IF ss.dir # 0 /\ ss.sock = 0
    THEN Goes(closed([ss EXCEPT !.dir = 0], s), s, "exited")
    ELSE Goes(closed(ss, s), s, "exited")

Mkdir ==
    \E s \in Sups : /\ session.sup[s].pc = "mkdir"
                     /\ Supervisors(server_init_mkdir(session, s))

OpenDir ==
    \E s \in Sups : /\ session.sup[s].pc = "open"
                     /\ Supervisors(server_init_open(session, s))

Flock ==
    \E s \in Sups : /\ session.sup[s].pc = "flock"
                     /\ Supervisors(server_init_flock(session, s))

UnlinkSock ==
    \E s \in Sups : /\ session.sup[s].pc = "unlink"
                     /\ Supervisors(server_init_unlink(session, s))

Bind ==
    \E s \in Sups : /\ session.sup[s].pc = "bind"
                     /\ Supervisors(server_init_bind(session, s))

\* a supervisor that serves calls exit(), which runs launchd_clean_up
Exit ==
    \E s \in Sups : /\ session.sup[s].pc = "serving"
                     /\ Supervisors(Goes(session, s, "clean_up"))

CleanUnlink ==
    \E s \in Sups : /\ session.sup[s].pc = "clean_up"
                     /\ Supervisors(clean_up_unlink(session, s))

CleanRmdir ==
    \E s \in Sups : /\ session.sup[s].pc = "rmdir"
                     /\ Supervisors(clean_up_rmdir(session, s))

InitServer ==
    /\ scope = Calendar
    /\ pid1 = FALSE
    /\ alive = TRUE
    /\ handshake = NoStart
    /\ last = Nothing
    /\ ctl = NoCtl
    /\ session = AtStart
    /\ jobs = Empty.jobs
    /\ connections = Empty.connections
    /\ procs = Empty.procs
    /\ kq = Empty.kq
    /\ fdtable = Empty.fdtable
    /\ async_enabled = Empty.async_enabled
    /\ batch_disabler_count = Empty.batch_disabler_count
    /\ total_children = Empty.total_children
    /\ shutdown_in_progress = Empty.shutdown_in_progress

NextServer ==
    Mkdir \/ OpenDir \/ Flock \/ UnlinkSock \/ Bind \/ Exit \/ CleanUnlink \/ CleanRmdir

SpecServer == InitServer /\ [][NextServer]_vars

\* the supervisors that have bound the socket and serve it
Serving(ss) == {s \in Sups : ss.sup[s].pc = "serving"}

\* C28: of the supervisors started for one (uid, session) directory at most
\* one has bound and serves the control socket at any time, and a
\* supervisor that finds the exclusive lock of the session directory held
\* exits without touching the socket.
C28_OneSupervisor ==
    [][/\ Cardinality(Serving(session')) <= 1
       /\ \A s \in Sups :
             (/\ session.sup[s].pc = "flock"
              /\ session.lock[session.sup[s].ourdirfd] # 0
              /\ session'.sup[s] # session.sup[s])
                 => /\ session'.sup[s].pc = "exited"
                    /\ session'.sock = session.sock]_vars

----------------------------------------------------------------------------
\* the count of failed exits at a reap (SpecDeep)

\* the status waitpid gives for the child reaped: a child whose exec failed
\* has called _exit(EXIT_FAILURE)
Reaped(p, status) == IF procs[p] = "execfailed" THEN "exit1" ELSE status

\* the count the reap starts from: zero after a run that earned forgiveness
Forgiven(j, td) ==
    IF ~OnDemand(j) /\ td >= LAUNCHD_REWARD_JOB_RUN_TIME THEN 0 ELSE j.failed_exits

\* C29: at each reap failed_exits is incremented by exactly one if and only
\* if the exit was a non-zero exit status, a termination by a signal other
\* than SIGTERM or SIGKILL, or, for a job with OnDemand false, a run shorter
\* than LAUNCHD_MIN_JOB_RUN_TIME; a zero exit or a SIGTERM or SIGKILL of a
\* run of at least that time adds nothing.  The count is taken from the
\* value the reap starts from, which is zero when the run is forgiven.
C29_FailedExitCounted ==
    [][(last'.op = "ProcExit" /\ Has(World', last'.id)) =>
          Job(World', last'.id).failed_exits =
              Forgiven(last'.was, last'.td)
              + (IF \/ Reaped(last'.was.p, last'.status) = "exit1"
                    \/ Reaped(last'.was.p, last'.status)
                           \notin {"exit0", "exit1", "SIGTERM", "SIGKILL"}
                    \/ ~OnDemand(last'.was) /\ last'.td < LAUNCHD_MIN_JOB_RUN_TIME
                 THEN 1 ELSE 0)]_vars

\* C29 witness: the child of a job that had failed before was terminated by
\* SIGSEGV after a run of at least LAUNCHD_MIN_JOB_RUN_TIME, and one was
\* added to the count
C29_Witness ==
    /\ last.op = "ProcExit"
    /\ last.status = "SIGSEGV"
    /\ last.td >= LAUNCHD_MIN_JOB_RUN_TIME
    /\ last.td < LAUNCHD_REWARD_JOB_RUN_TIME
    /\ last.was.failed_exits > 0
    /\ Has(World, last.id)
    /\ Job(World, last.id).failed_exits = last.was.failed_exits + 1

----------------------------------------------------------------------------
\* the probe of a queue directory (Spec)

\* the handler that ran last has forked a child for its job
Forked == last.was.p = 0 /\ Has(World, last.id) /\ Job(World, last.id).p # 0

\* C30: an event of a queue directory starts the job only if the probe of
\* the directory finds an entry other than . and ..; an event on a directory
\* in which the probe finds none starts nothing.
C30_QueueProbe ==
    (/\ last.op = "VnodeChanged"
     /\ last.arg[1] \in SeqRange(last.was.qdirs)
     /\ Forked)
    => last.arg[2] > 0

----------------------------------------------------------------------------
\* the calendar alarm of a job (Spec)

\* the calendar alarms pending for a job
CalAlarms(j) ==
    {k \in kq : k.filter = "TIMER" /\ k.ident = j.start_cal_interval}

\* C31: each firing of the alarm of a job with StartCalendarInterval sets
\* the alarm again before the job is started, so that while the job is in
\* the registry exactly one calendar alarm is pending for it, and it is the
\* job's own.  (That the time set is later than the time of the firing is
\* the property of job_set_alarm stated as C19.)
C31_OneAlarmPending ==
    \A i \in 1..Len(jobs) :
        jobs[i].start_cal_interval # 0 =>
            CalAlarms(jobs[i]) =
                {[ident |-> jobs[i].start_cal_interval, filter |-> "TIMER",
                  oneshot |-> TRUE, udata |-> JobUdata(jobs[i].id)]}

\* C31 witness: the calendar alarm of a job has fired, the job was started
\* by it, and its alarm is pending again
C31_Witness ==
    /\ last.op = "TimerFired"
    /\ last.was.start_cal_interval # 0
    /\ last.arg = <<last.was.start_cal_interval>>
    /\ last.was.p = 0 /\ Has(World, last.id) /\ Job(World, last.id).p # 0
    /\ CalAlarms(Job(World, last.id)) # {}

----------------------------------------------------------------------------
\* a job from its submission to its first start (SpecSubmit)

\* the kinds of job a trigger starts, next to those of Kinds
Triggered ==
    { [Program |-> "/bin/p", WatchPaths |-> "/w"],
      [Program |-> "/bin/p", QueueDirectories |-> "/q"],
      [Program |-> "/bin/p", Sockets |-> 0, QueueDirectories |-> "/q"] }

\* one job of any kind and one child, the supervisor not PID 1; SubmitJob
\* and the triggers are recorded
Submit == [cap |-> MaxJobs - 1, conns |-> MaxConns, nproc |-> MaxProcs - 1,
           depth |-> MaxFailures,
           kinds |-> Kinds \cup Triggered, labels |-> {"a"}, pid1 |-> {FALSE},
           watch |-> Triggers \cup {"SubmitJob"}]

InitSubmit == Start(Submit)

NextSubmit ==
    \/ SubmitJob \/ RemoveJob
    \/ ProcExit \/ ExecPipe \/ SocketReadable \/ TimerFired \/ VnodeChanged
    \/ ChildExec \/ ChildExit

SpecSubmit == InitSubmit /\ [][NextSubmit]_vars

\* the knotes of the triggers of a job: its socket, its watch paths and its
\* queue directories
TriggerKnotes(j) ==
    {k \in kq :
        \/ /\ k.filter = "READ" /\ "Sockets" \in DOMAIN j.ldj
           /\ k.ident = j.ldj["Sockets"]
        \/ /\ k.filter = "VNODE"
           /\ k.ident \in SeqRange(j.vnodes) \cup SeqRange(j.qdirs)}

\* the descriptors of the triggers of a job
TriggerFds(j) ==
    Positive(j.vnodes) \cup Positive(j.qdirs)
        \cup (IF "Sockets" \in DOMAIN j.ldj THEN Positive(<<j.ldj["Sockets"]>>) ELSE {})

\* every trigger of the job is armed, and delivers to the job
Armed(j) ==
    /\ {k.ident : k \in TriggerKnotes(j)} = TriggerFds(j)
    /\ \A k \in TriggerKnotes(j) : k.udata = JobUdata(j.id)

\* C32: immediately after a successful SubmitJob the job has a running
\* process if and only if OnDemand is false, RunAtLoad is true or one of its
\* queue directories is not empty; otherwise its pid is 0 with its socket
\* and path triggers armed, and the first trigger event starts it.
C32_StartAtLoad ==
    /\ (last.op = "SubmitJob" /\ last.resp = <<E0>>) =>
          \A i \in 1..Len(jobs) :
             jobs[i].label = last.label =>
                /\ jobs[i].p # 0 <=>
                      \/ ~OnDemand(jobs[i])
                      \/ job_get_bool(jobs[i].ldj, "RunAtLoad")
                      \/ jobs[i].qdirs # <<>> /\ last.dir > 0
                /\ jobs[i].p = 0 => Armed(jobs[i])
    /\ (/\ last.op \in {"SocketReadable", "VnodeChanged", "VnodeInvalid"}
        /\ last.was.p = 0
        /\ last.op = "VnodeChanged" /\ last.arg[1] \in SeqRange(last.was.qdirs)
               => last.arg[2] > 0)
       => Has(World, last.id) /\ Job(World, last.id).p # 0

----------------------------------------------------------------------------
\* the count of children (Spec)

\* the children forked by job_start that no waitpid has reaped yet
Unreaped == {p \in DOMAIN procs : procs[p] # "free"}

\* C33: total_children always equals the number of forked children of jobs
\* that have not been reaped yet: one is added at each successful start, one
\* taken off at each reap whatever path reaps the child (the exit handler,
\* the removal of a running job, an exec failure), it never underflows and
\* it is 0 whenever no child is alive.
C33_ChildrenCounted == total_children = Cardinality(Unreaped)

----------------------------------------------------------------------------
\* the connection of a job that is removed (SpecCtl)

\* C34: every connection that is bound to a job refers to a job that is
\* still in the registry, and a CheckIn that arrives on the connection of a
\* job after the job was removed never reads or marks the removed entry.
C34_BoundToLiveJob ==
    [][/\ \A c \in connections' : c.j # 0 => Has(World', c.j)
       /\ (last'.op = "CheckIn" /\ last'.arg[1].j # 0)
              => Has(World, last'.arg[1].j)]_vars

----------------------------------------------------------------------------
\* the exit of a supervisor that shuts down (Spec)

\* the supervisor is in kevent() or at the test of main() before it
Looping == alive /\ handshake.pc = 0

\* C35: in a supervisor that is not process 1 and has jobs loaded, once the
\* shutdown has begun (Shutdown, SIGTERM, the exit of the firstborn) and
\* every child has exited and been reaped, the test of main() for the exit
\* holds and the supervisor exits, whatever submits, starts, removals and
\* exec failures came before.
C35_ExitsAfterShutdown ==
    (Looping /\ ~pid1 /\ jobs # <<>> /\ shutdown_in_progress /\ Unreaped = {})
        => ExitNow

----------------------------------------------------------------------------
\* the async queue after the shutdown has begun (SpecBatch)

\* C36: once the shutdown has begun the asynckq knote stays disabled for the
\* rest of the life of the supervisor, so that no interval timer, calendar
\* alarm, throttle timer or vnode event is handled (and starts a job)
\* afterwards, whatever BatchControl requests and closes of connections
\* follow.
C36_AsyncOffInShutdown ==
    [][shutdown_in_progress
          => /\ ~async_enabled'
             /\ last'.op \in AsyncEvents => last' = last]_vars

----------------------------------------------------------------------------
\* the triggers of an on-demand job (SpecSubmit)

\* C37: for every OnDemand job of the registry, between the handlers, the
\* triggers of the job (socket readable, watch path, queue directory) are
\* armed exactly when the job has no running process: armed while its pid
\* is 0 and disarmed while it is not, after any sequence of starts, failed
\* forks, exits and trigger events.
C37_ArmedIffIdle ==
    \A i \in 1..Len(jobs) :
        OnDemand(jobs[i]) =>
            IF jobs[i].p = 0 THEN Armed(jobs[i])
            ELSE TriggerKnotes(jobs[i]) = {}

----------------------------------------------------------------------------
\* the restart of a job that is kept alive (SpecDeep)

\* a timer that will start the job is pending
RestartPending(j) ==
    \E k \in kq : k.filter = "TIMER" /\ k.udata = JobUdata(j.id)

\* C38: outside shutdown and with batching not left disabled, a job with
\* OnDemand false that stays in the registry is running again after each exit
\* and after each failed attempt to start it: between the handlers it has a
\* process or a timer that will start it, and in particular a failed fork is
\* tried again, as the log message of job_start says.
C38_KeptAlive ==
    (alive /\ ~shutdown_in_progress /\ batch_disabler_count = 0) =>
        \A i \in 1..Len(jobs) :
            ~OnDemand(jobs[i]) => jobs[i].p # 0 \/ RestartPending(jobs[i])

----------------------------------------------------------------------------
\* the loops of cronemu and cronemu_wday, an iteration at a time (SpecAlarm)

MaxYears == 8            \* years past EpochYear the loops are followed

\* the intervals a client can submit: fields of the calendar, and fields
\* outside it (Minute -2 with Hour 5, Minute 60, Weekday 8, Day 31 of
\* February)
Submittable ==
    [tm_mon : {-1, 1}, tm_mday : {-1, 31}, tm_hour : {-1, 5},
     tm_min : {-1, 0}, tm_wday : {-1, 3, 7}]
    \cup [tm_mon : {-1}, tm_mday : {-1}, tm_hour : {5}, tm_min : {-2},
          tm_wday : {-1, 3}]
    \cup [tm_mon : {-1}, tm_mday : {-1, 31}, tm_hour : {-1}, tm_min : {60},
          tm_wday : {-1}]
    \cup [tm_mon : {-1}, tm_mday : {-1}, tm_hour : {-1}, tm_min : {-1, 0},
          tm_wday : {8}]

\* job_set_alarm alone, SubmitJob or the alarm handler having called it
Alarm == [cap |-> 0, conns |-> 0, nproc |-> 0, depth |-> 0, kinds |-> {},
          labels |-> {}, pid1 |-> {FALSE}, watch |-> {"cronemu", "cronemu_wday"}]

\* last.arg is the interval, time(NULL) and workingtm; last.resp the time
\* cronemu has returned
Search(op, cal, now, workingtm, found) ==
    [Nothing EXCEPT !.op = op, !.arg = <<cal, now, workingtm>>, !.resp = found]

\* the body of the loop of cronemu, after a cronemu_mon that failed
cronemu_again(workingtm, mon, mday, hour, min) ==
    mktime([cronemu_mon(workingtm, mon, mday, hour, min).tm
               EXCEPT !.tm_year = @ + 1, !.tm_mon = 0, !.tm_mday = 1,
                      !.tm_hour = 0, !.tm_min = 0])

\* the test of the loop of cronemu_wday fails: the day of the week is the
\* one asked for and cronemu_hour finds the time in it
cronemu_wday_found(workingtm, wday, hour, min) ==
    /\ workingtm.tm_wday = (IF wday = 7 THEN 0 ELSE wday)
    /\ cronemu_hour(workingtm, hour, min).ok

\* the body of the loop of cronemu_wday; the test has left workingtm to
\* cronemu_hour only on the day of the week asked for
cronemu_wday_again(workingtm, wday, hour, min) ==
    mktime(cronemu_hour(
        [(IF workingtm.tm_wday = (IF wday = 7 THEN 0 ELSE wday)
          THEN cronemu_hour(workingtm, hour, min).tm ELSE workingtm)
            EXCEPT !.tm_mday = @ + 1, !.tm_hour = 0, !.tm_min = 0],
        hour, min).tm)

\* job_set_alarm has called cronemu, which is at the test of its loop
InitAlarm ==
    /\ scope = Alarm
    /\ pid1 = FALSE
    /\ alive = TRUE
    /\ handshake = NoStart
    /\ ctl = NoCtl
    /\ session = NoSession
    /\ jobs = Empty.jobs
    /\ connections = Empty.connections
    /\ procs = Empty.procs
    /\ kq = Empty.kq
    /\ fdtable = Empty.fdtable
    /\ async_enabled = Empty.async_enabled
    /\ batch_disabler_count = Empty.batch_disabler_count
    /\ total_children = Empty.total_children
    /\ shutdown_in_progress = Empty.shutdown_in_progress
    /\ \E cal \in Submittable : \E now \in Nows :
         last = Search("cronemu", cal, now, next_minute(now), <<>>)

Searching(op) ==
    /\ last.op = op
    /\ last.arg[3].tm_year < EpochYear + MaxYears
    /\ UNCHANGED <<jobs, connections, procs, kq, fdtable, async_enabled,
                   batch_disabler_count, total_children, shutdown_in_progress,
                   pid1, alive, handshake, ctl, session, scope>>

\* cronemu: cronemu_mon fails and the loop goes to the next year
CronemuLoop ==
    /\ Searching("cronemu")
    /\ ~cronemu_mon(last.arg[3], last.arg[1].tm_mon, last.arg[1].tm_mday,
                    last.arg[1].tm_hour, last.arg[1].tm_min).ok
    /\ last' = [last EXCEPT !.arg[3] =
                    cronemu_again(last.arg[3], last.arg[1].tm_mon,
                                  last.arg[1].tm_mday, last.arg[1].tm_hour,
                                  last.arg[1].tm_min)]

\* cronemu returns; job_set_alarm calls cronemu_wday if a weekday is given
CronemuReturn ==
    /\ Searching("cronemu")
    /\ cronemu_mon(last.arg[3], last.arg[1].tm_mon, last.arg[1].tm_mday,
                   last.arg[1].tm_hour, last.arg[1].tm_min).ok
    /\ last' = Search(IF last.arg[1].tm_wday # -1 THEN "cronemu_wday"
                      ELSE "kevent_mod",
                      last.arg[1], last.arg[2], next_minute(last.arg[2]),
                      <<time_of(mktime(cronemu_mon(last.arg[3],
                            last.arg[1].tm_mon, last.arg[1].tm_mday,
                            last.arg[1].tm_hour, last.arg[1].tm_min).tm))>>)

\* cronemu_wday: the test of the loop holds and the loop goes to the next day
WdayLoop ==
    /\ Searching("cronemu_wday")
    /\ ~cronemu_wday_found(last.arg[3], last.arg[1].tm_wday,
                           last.arg[1].tm_hour, last.arg[1].tm_min)
    /\ last' = [last EXCEPT !.arg[3] =
                    cronemu_wday_again(last.arg[3], last.arg[1].tm_wday,
                                       last.arg[1].tm_hour, last.arg[1].tm_min)]

\* cronemu_wday returns and job_set_alarm takes the time it sets
WdayReturn ==
    /\ Searching("cronemu_wday")
    /\ cronemu_wday_found(last.arg[3], last.arg[1].tm_wday,
                          last.arg[1].tm_hour, last.arg[1].tm_min)
    /\ last' = [last EXCEPT
         !.op = "kevent_mod",
         !.resp = <<IF /\ last.arg[1].tm_mday # -1
                       /\ last.resp[1] < time_of(mktime(cronemu_hour(last.arg[3],
                              last.arg[1].tm_hour, last.arg[1].tm_min).tm))
                    THEN last.resp[1]
                    ELSE time_of(mktime(cronemu_hour(last.arg[3],
                             last.arg[1].tm_hour, last.arg[1].tm_min).tm))>>]

NextAlarm == CronemuLoop \/ CronemuReturn \/ WdayLoop \/ WdayReturn

SpecAlarm == InitAlarm /\ [][NextAlarm]_vars

\* C39: the computation of the next calendar alarm terminates for every
\* StartCalendarInterval a client can submit, fields outside the calendar
\* included (Minute -2 or 60, Weekday 8, Day 31 of February): the loops of
\* cronemu and cronemu_wday have returned before workingtm is MaxYears years
\* past the epoch, no date of the calendar being that far from the next
\* one of its kind, so that the reactor is never stuck in SubmitJob or in
\* the alarm handler.
C39_AlarmComputed ==
    last.op \in {"cronemu", "cronemu_wday"}
        => last.arg[3].tm_year < EpochYear + MaxYears

----------------------------------------------------------------------------
\* the lock of the overrides database (SpecLoad)

\* C40: every load or unload command that has acquired the exclusive lock on
\* the overrides database releases it and closes the descriptor before it
\* returns, on every return path ("nothing found to load" included), so that
\* a later load or unload of the same interactive launchctl acquires the
\* lock and is never blocked by an earlier command of its own.
C40_LockReleased ==
    /\ ctl.pc = "prompt" => ~ctl.locked
    /\ ctl.pc # "blocked"

====
